---- MODULE Spec2Model ----
(***************************************************************************)
(* Verification model of healthsim-common's generation core:               *)
(*   - IdentityRegistry, TriggerRegistry and the CrossDomainSync           *)
(*     Coordinator of                                                      *)
(*     packages/core/src/healthsim/generation/cross_domain_sync.py         *)
(*   - the journey engine (Timeline Builder and Timeline Executor), whose  *)
(*     module healthsim.generation.journey_engine is imported by           *)
(*     handlers.py and the tests but is not among the sources; it is       *)
(*     modelled from sections 4.1-4.4 of the specification.                *)
(* Python's None is the value None below; Python truthiness of a str or    *)
(* None is the operator Truthy.                                            *)
(***************************************************************************)
EXTENDS Integers, Sequences, FiniteSets, TLC

VARIABLES
    identities,        \* IdentityRegistry._identities : correlation id -> PersonIdentity
    id_order,          \* the keys of IdentityRegistry._identities in insertion order (the order
                       \* in which a Python dict iterates)
    product_indexes,   \* IdentityRegistry._product_indexes : product -> (product id -> correlation id)
    idOp,              \* the last IdentityRegistry call: its arguments and return value
    specs,             \* TriggerRegistry._specs : trigger type -> TriggerSpec
    handlers,          \* TriggerRegistry._handlers : the trigger types that have a handler
    fired,             \* the last TriggerRegistry.fire call: its trigger type, what the registry
                       \* held for that type at the call, and the TriggerResult returned
    calls,             \* number of calls made so far (bounds the explored call sequences)
    root_seed,         \* JourneyEngine(seed): the root seed of the engine's Seed Hierarchy
    journey,           \* the JourneySpecification handed to create_timeline
    entity,            \* the entity (its index in the Seed Hierarchy) the timeline is built for
    start_date,        \* the start date handed to create_timeline (a day number)
    builds,            \* how many times create_timeline has run on this engine
    first_build,       \* the outcome of the first create_timeline: error or Timeline as built
    build,             \* the outcome of the latest create_timeline
    timeline,          \* the events of the current Timeline, with the Executor's status and result
    horizons,          \* the up_to_date of every execute made on the current Timeline, in order
    invoked,           \* the event ids whose handler was called on the current Timeline, in call order
    before,            \* the events of the current Timeline as they were when the latest execute began
    sync_config,       \* CrossDomainSync.config of the current Coordinator
    sync_seed,         \* CrossDomainSync.seed of the current Coordinator
    syncs,             \* how many Coordinators have been constructed
    uuids,             \* how many uuid4 values have been drawn
    created,           \* every create_linked_identity call so far, on any Coordinator: its
                       \* seed, products and SSN arguments and the ids it returned
    validated,         \* the last CrossDomainSync.validate call: its argument and what it returned
    h_seed,            \* the seed of the PatientSimHandlers and MemberSimHandlers collections
    h_rng,             \* the generator self._rng of each handler collection
    h_event,           \* the TimelineEvent object handed to the latest handler call, as the
                       \* call left it
    h_calls,           \* the handler calls made so far: handler, arguments as passed, dict returned
    seed_managers,     \* the Seed Hierarchy instances: root seed and child seeds handed out
    stream_log,        \* the requests made to the Seed Hierarchy instances, in order, with the
                       \* samples each returned
    profiles,          \* the profiles table of the ProfileManager's connection: id -> row
    pm_log,            \* the ProfileManager calls made so far: argument, the row they acted
                       \* on and their outcome
    caller_spec,       \* the specification object the caller of each product's generate holds
    gen_log,           \* the generate calls made so far: arguments, the caller's object as it
                       \* was before the call, and what the executor ran with
    tj_template,       \* the id of the trial journey template fetched last, or None
    tj_chain,          \* the event ids passed so far while following depends_on from one
                       \* event of that template
    tj_verdict         \* what following the dependencies has found so far

idVars == <<identities, id_order, product_indexes, idOp>>
trigVars == <<specs, handlers, fired>>
tlVars == <<root_seed, journey, entity, start_date, builds, first_build, build,
            timeline, horizons, invoked, before>>
syncVars == <<sync_config, sync_seed, syncs, uuids, created, validated>>
hVars == <<h_seed, h_rng, h_event, h_calls>>
\* the registries, the Coordinator and the journey engine
coreVars == <<idVars, trigVars, tlVars, calls, syncVars>>
\* the components around them
seedVars == <<seed_managers, stream_log>>
profileVars == <<profiles, pm_log>>
genVars == <<caller_spec, gen_log>>
tjVars == <<tj_template, tj_chain, tj_verdict>>
outerVars == <<hVars, seedVars, profileVars, genVars, tjVars>>
vars == <<identities, id_order, product_indexes, idOp, specs, handlers, fired, calls,
          root_seed, journey, entity, start_date, builds, first_build, build,
          timeline, horizons, invoked, before,
          sync_config, sync_seed, syncs, uuids, created, validated,
          h_seed, h_rng, h_event, h_calls, seed_managers, stream_log, profiles, pm_log,
          caller_spec, gen_log, tj_template, tj_chain, tj_verdict>>

None == "None"

\* truthiness of an Optional[str]: None and the empty string are falsy
Truthy(x) == x # None /\ x # ""

\* d[k] = v on a dict
Put(d, k, v) == [x \in (DOMAIN d) \cup {k} |-> IF x = k THEN v ELSE d[x]]

\* d.get(k)
Get(d, k) == IF k \in DOMAIN d THEN d[k] ELSE None

EmptyDict == [x \in {} |-> None]

\* None where a PersonIdentity is expected (Optional[PersonIdentity])
NoIdentity == [none |-> TRUE]

\* d.get(k) on a dict of PersonIdentity
GetIdentity(d, k) == IF k \in DOMAIN d THEN d[k] ELSE NoIdentity

(***************************************************************************)
(* Bounds                                                                  *)
(***************************************************************************)
MaxCids == 1          \* non-empty correlation ids "c1".."cN" (the empty id is always included)
MaxIds == 2           \* per-product ids "ID-1".."ID-N"
MaxCalls == 2         \* length of the explored sequences of registry calls

(***************************************************************************)
(* Identity correlation                                                    *)
(***************************************************************************)
ProductType == {"patientsim", "membersim", "rxmembersim", "trialsim",
                "networksim", "populationsim"}

\* the products that have a per-product key on PersonIdentity
KeyProducts == {"patientsim", "membersim", "rxmembersim", "trialsim"}

Cids == {""} \cup {"c" \o ToString(i) : i \in 1..MaxCids}

ProductIds == {"ID-" \o ToString(i) : i \in 1..MaxIds}

\* PersonIdentity: the correlation id and the four per-product keys
PersonIdentity == [correlation_id : Cids,
                   patient_id : {None} \cup ProductIds,
                   member_id : {None} \cup ProductIds,
                   rx_member_id : {None},
                   subject_id : {None}]

\* the identity's key for a product (None for a product without a key field)
KeyOf(identity, product) ==
    CASE product = "patientsim" -> identity.patient_id
      [] product = "membersim" -> identity.member_id
      [] product = "rxmembersim" -> identity.rx_member_id
      [] product = "trialsim" -> identity.subject_id
      [] OTHER -> None

IndexIf(idx, product, key, cid) ==
    IF Truthy(key) THEN [idx EXCEPT ![product] = Put(idx[product], key, cid)] ELSE idx

\* IdentityRegistry.register
register(identity) ==
    LET cid == identity.correlation_id
        i1 == IndexIf(product_indexes, "patientsim", identity.patient_id, cid)
        i2 == IndexIf(i1, "membersim", identity.member_id, cid)
        i3 == IndexIf(i2, "rxmembersim", identity.rx_member_id, cid)
        i4 == IndexIf(i3, "trialsim", identity.subject_id, cid)
    IN /\ identities' = Put(identities, cid, identity)
       /\ id_order' = IF cid \in DOMAIN identities THEN id_order ELSE Append(id_order, cid)
       /\ product_indexes' = i4
       /\ idOp' = [op |-> "register", cid |-> cid, product |-> None,
                   product_id |-> None, ret |-> cid]

\* IdentityRegistry.get_by_correlation_id
get_by_correlation_id(ids, cid) == GetIdentity(ids, cid)

\* IdentityRegistry.get_by_product_id, on a registry state (ids, idx)
GetByProductIdIn(ids, idx, product, product_id) ==
    LET correlation_id == Get(IF product \in DOMAIN idx THEN idx[product] ELSE EmptyDict,
                              product_id)
    IN IF Truthy(correlation_id) THEN GetIdentity(ids, correlation_id) ELSE NoIdentity

get_by_product_id(product, product_id) ==
    GetByProductIdIn(identities, product_indexes, product, product_id)

\* the assignment to the per-product key in link_product_id
SetKey(identity, product, product_id) ==
    CASE product = "patientsim" -> [identity EXCEPT !.patient_id = product_id]
      [] product = "membersim" -> [identity EXCEPT !.member_id = product_id]
      [] product = "rxmembersim" -> [identity EXCEPT !.rx_member_id = product_id]
      [] product = "trialsim" -> [identity EXCEPT !.subject_id = product_id]
      [] OTHER -> identity

\* a link_product_id that writes the index before it looks the identity up
LinkIndexFirst(correlation_id, product, product_id) ==
    LET identity == GetIdentity(identities, correlation_id)
    IN /\ product_indexes' = [product_indexes EXCEPT ![product] =
                                 Put(product_indexes[product], product_id, correlation_id)]
       /\ UNCHANGED id_order
       /\ identities' = IF identity = NoIdentity THEN identities
                        ELSE [identities EXCEPT ![correlation_id] =
                                 SetKey(identity, product, product_id)]
       /\ idOp' = [op |-> "link_product_id", cid |-> correlation_id,
                   product |-> product, product_id |-> product_id,
                   ret |-> identity # NoIdentity]

\* IdentityRegistry.link_product_id
link_product_id(correlation_id, product, product_id) ==
    LET identity == GetIdentity(identities, correlation_id)
    IN IF identity = NoIdentity
       THEN /\ UNCHANGED <<identities, id_order, product_indexes>>
            /\ idOp' = [op |-> "link_product_id", cid |-> correlation_id,
                        product |-> product, product_id |-> product_id, ret |-> FALSE]
       ELSE /\ identities' = [identities EXCEPT ![correlation_id] =
                                 SetKey(identity, product, product_id)]
            /\ UNCHANGED id_order
            /\ product_indexes' = [product_indexes EXCEPT ![product] =
                                      Put(product_indexes[product], product_id, correlation_id)]
            /\ idOp' = [op |-> "link_product_id", cid |-> correlation_id,
                        product |-> product, product_id |-> product_id, ret |-> TRUE]

IdentityInit ==
    /\ identities = EmptyDict
    /\ id_order = <<>>
    /\ product_indexes = [p \in ProductType |-> EmptyDict]
    /\ idOp = [op |-> "init", cid |-> None, product |-> None, product_id |-> None,
               ret |-> None]

Tick == calls < MaxCalls /\ calls' = calls + 1

Register ==
    \E identity \in PersonIdentity :
        Tick /\ register(identity) /\ UNCHANGED <<trigVars, tlVars, syncVars, outerVars>>

\* the products link_product_id is called with: three with a key field, one without
LinkProducts == {"patientsim", "membersim", "trialsim", "networksim"}

LinkProductId ==
    \E cid \in Cids, product \in LinkProducts, product_id \in ProductIds :
        Tick /\ link_product_id(cid, product, product_id) /\ UNCHANGED <<trigVars, tlVars, syncVars, outerVars>>

(***************************************************************************)
(* Identity matching (find_matches)                                        *)
(***************************************************************************)
MaxPersons == 2       \* identities registered before and between the find_matches calls

\* datetime.date values
Dates == {"date(1980,1,15)", "date(1975,6,2)"}

\* date.isoformat()
isoformat(d) ==
    CASE d = "date(1980,1,15)" -> "1980-01-15"
      [] d = "date(1975,6,2)" -> "1975-06-02"

\* str.upper() on the pieces of a formatted name ("None" is what an f-string makes of None)
upper(x) ==
    CASE x = "Smith" -> "SMITH"
      [] x = "Jones" -> "JONES"
      [] x = "John" -> "JOHN"
      [] x = "None" -> "NONE"
      [] OTHER -> x

\* f"{self.last_name},{self.first_name}".upper()
FormatName(identity) == upper(identity.last_name) \o "," \o upper(identity.first_name)

\* PersonIdentity.to_correlator_dict (without the correlation id)
to_correlator_dict(identity) ==
    [ssn_hash |-> identity.ssn_hash,
     dob |-> IF identity.date_of_birth # None THEN isoformat(identity.date_of_birth) ELSE None,
     gender |-> identity.gender,
     name |-> IF Truthy(identity.last_name) THEN FormatName(identity) ELSE None]

\* the correlator weights 1.0, 0.5, 0.1 and 0.3, in tenths
DobWeight == 5
GenderWeight == 1
NameWeight == 3

\* a hashed id that weighs more than a date of birth and less than the demographics
\* together
SsnWeightJustAboveDob == DobWeight + 1

SsnWeight == 10

RECURSIVE GCD(_, _)
GCD(a, b) == IF b = 0 THEN a ELSE GCD(b, a % b)

\* the float matched / total as a fraction in lowest terms
Quotient(matched, total) ==
    [num |-> matched \div GCD(matched, total), den |-> total \div GCD(matched, total)]

\* the float 0.0
Zero == [num |-> 0, den |-> 1]

\* a >= b on confidences
AtLeast(a, b) == a.num * b.den >= b.num * a.den

\* a score whose total counts every correlator of the query, held by the identity or not
MatchScoreAbsentCounted(identity, correlators) ==
    LET ssn == Truthy(correlators.ssn_hash)
        dob == Truthy(correlators.dob)
        gender == Truthy(correlators.gender)
        name == Truthy(correlators.name)
        total == (IF ssn THEN SsnWeight ELSE 0) + (IF dob THEN DobWeight ELSE 0)
                 + (IF gender THEN GenderWeight ELSE 0) + (IF name THEN NameWeight ELSE 0)
        matched ==
            (IF ssn /\ correlators.ssn_hash = identity.ssn_hash THEN SsnWeight ELSE 0)
            + (IF dob /\ identity.date_of_birth # None
                      /\ correlators.dob = isoformat(identity.date_of_birth)
               THEN DobWeight ELSE 0)
            + (IF gender /\ correlators.gender = identity.gender THEN GenderWeight ELSE 0)
            + (IF name /\ Truthy(identity.last_name) /\ correlators.name = FormatName(identity)
               THEN NameWeight ELSE 0)
    IN IF total = 0 THEN Zero ELSE Quotient(matched, total)

\* IdentityRegistry._calculate_match_score
calculate_match_score(identity, correlators) ==
    LET ssn == Truthy(correlators.ssn_hash) /\ Truthy(identity.ssn_hash)
        dob == Truthy(correlators.dob) /\ identity.date_of_birth # None
        gender == Truthy(correlators.gender) /\ Truthy(identity.gender)
        name == Truthy(correlators.name) /\ Truthy(identity.last_name)
        total_weight ==
            (IF ssn THEN SsnWeight ELSE 0) + (IF dob THEN DobWeight ELSE 0)
            + (IF gender THEN GenderWeight ELSE 0) + (IF name THEN NameWeight ELSE 0)
        matched_weight ==
            (IF ssn /\ correlators.ssn_hash = identity.ssn_hash THEN SsnWeight ELSE 0)
            + (IF dob /\ correlators.dob = isoformat(identity.date_of_birth)
               THEN DobWeight ELSE 0)
            + (IF gender /\ correlators.gender = identity.gender THEN GenderWeight ELSE 0)
            + (IF name /\ correlators.name = FormatName(identity) THEN NameWeight ELSE 0)
    IN IF total_weight = 0 THEN Zero ELSE Quotient(matched_weight, total_weight)

\* a filter that keeps the scores strictly above min_confidence
KeptStrictlyAbove(score, min_confidence) == ~AtLeast(min_confidence, score)

\* score >= min_confidence
Kept(score, min_confidence) == AtLeast(score, min_confidence)

\* the loop of find_matches over self._identities.values(), in dict order
RECURSIVE Matches(_, _, _)
Matches(order, correlators, min_confidence) ==
    IF order = <<>> THEN <<>>
    ELSE LET identity == identities[Head(order)]
             score == calculate_match_score(identity, correlators)
         IN (IF Kept(score, min_confidence)
             THEN << [identity |-> identity, score |-> score] >>
             ELSE <<>>) \o Matches(Tail(order), correlators, min_confidence)

\* a sort that places x before the matches of lower or equal score it follows: ascending
PlaceAscending(sorted, x) ==
    LET k == Cardinality({i \in 1..Len(sorted) : ~AtLeast(sorted[i].score, x.score)})
    IN SubSeq(sorted, 1, k) \o <<x>> \o SubSeq(sorted, k + 1, Len(sorted))

\* where a stable descending sort places x among the matches before it: after every
\* match of higher or equal score
Place(sorted, x) ==
    LET k == Cardinality({i \in 1..Len(sorted) : AtLeast(sorted[i].score, x.score)})
    IN SubSeq(sorted, 1, k) \o <<x>> \o SubSeq(sorted, k + 1, Len(sorted))

\* sorted(matches, key=lambda x: x[1], reverse=True)
RECURSIVE SortedByScore(_)
SortedByScore(matches) ==
    IF matches = <<>> THEN <<>>
    ELSE Place(SortedByScore(SubSeq(matches, 1, Len(matches) - 1)), matches[Len(matches)])

\* IdentityRegistry.find_matches
find_matches(correlators, min_confidence) ==
    /\ idOp' = [op |-> "find_matches", correlators |-> correlators,
                min_confidence |-> min_confidence,
                ret |-> SortedByScore(Matches(id_order, correlators, min_confidence))]
    /\ UNCHANGED <<identities, id_order, product_indexes>>

\* the demographics of the registered persons: none; a full set; a full set that differs
\* in every field; a first name without a last name; a last name without a first name
Demographics ==
    {[date_of_birth |-> None, gender |-> None, first_name |-> None, last_name |-> None],
     [date_of_birth |-> "date(1980,1,15)", gender |-> "M", first_name |-> "John",
      last_name |-> "Smith"],
     [date_of_birth |-> "date(1975,6,2)", gender |-> "F", first_name |-> "John",
      last_name |-> "Jones"],
     [date_of_birth |-> "date(1980,1,15)", gender |-> "F", first_name |-> "John",
      last_name |-> None],
     [date_of_birth |-> None, gender |-> "M", first_name |-> None, last_name |-> "Smith"]}

SsnHashes == {"a1b2", "c3d4"}

\* PersonIdentity(ssn_hash=..., date_of_birth=..., ...): the correlation id is the
\* default, a fresh uuid4; no per-product key
NewPerson(correlation_id, ssn_hash, d) ==
    [correlation_id |-> correlation_id, ssn_hash |-> ssn_hash,
     date_of_birth |-> d.date_of_birth, gender |-> d.gender,
     first_name |-> d.first_name, last_name |-> d.last_name,
     patient_id |-> None, member_id |-> None, rx_member_id |-> None, subject_id |-> None]

\* the n-th uuid4 drawn
Uuid(n) == "uuid-" \o ToString(n)

RegisterPerson ==
    \E ssn_hash \in {None} \cup SsnHashes, d \in Demographics :
        /\ Len(id_order) < MaxPersons
        /\ register(NewPerson(Uuid(Len(id_order) + 1), ssn_hash, d))
        /\ UNCHANGED <<trigVars, tlVars, calls, syncVars, outerVars>>

\* the correlator dicts find_matches is called with: every subset of one person's
\* correlators, and that person's with an empty hashed id
Correlators ==
    [ssn_hash : {None, "a1b2"}, dob : {None, "1980-01-15"}, gender : {None, "M"},
     name : {None, "SMITH,JOHN"}]
    \cup {[ssn_hash |-> "", dob |-> "1980-01-15", gender |-> "M", name |-> "SMITH,JOHN"]}

\* min_confidence: 0.0, the default 0.8, and 1.0
MinConfidences == {Quotient(0, 10), Quotient(8, 10), Quotient(10, 10)}

\* find_matches reads the registry and leaves it as it is: a call is explored from
\* every registry the registrations reach, not from the state another call left
FindMatches ==
    /\ idOp.op # "find_matches"
    /\ \E correlators \in Correlators, min_confidence \in MinConfidences :
           /\ find_matches(correlators, min_confidence)
           /\ UNCHANGED <<trigVars, tlVars, calls, syncVars, outerVars>>

(***************************************************************************)
(* Event triggers                                                          *)
(***************************************************************************)
TriggerType == {"encounter_to_claim", "prescription_to_fill",
                "admission_to_facility_claim", "lab_order_to_claim_line",
                "trial_visit_to_encounter"}

\* TriggerSpec: trigger_type keys the registry, enabled gates fire, delay_days is the
\* allowed delay window (min, max), here the dataclass default
TriggerSpec == [trigger_type : TriggerType, delay_days : {<<0, 3>>}, enabled : BOOLEAN]

\* the source events fire is called with: a dict with an "id" and one without
SourceEvents == {[id |-> "ENC-001"], EmptyDict}

\* source_event.get("id", "unknown")
SourceId(source_event) ==
    IF "id" \in DOMAIN source_event THEN source_event["id"] ELSE "unknown"

\* the f-string messages of fire, as the sequence of their pieces
NoSpecMessage(trigger_type) == <<"No spec", " registered for ", trigger_type>>
DisabledMessage(trigger_type) == <<"Trigger ", trigger_type, " is ", "disabled">>
NoHandlerMessage(trigger_type) == <<"No handler", " registered for ", trigger_type>>

FailureResult(trigger_type, source_event, message) ==
    [trigger_type |-> trigger_type, source_id |-> SourceId(source_event),
     target_id |-> None, success |-> FALSE, message |-> message]

\* what handler.handle returns: a TriggerResult of the handler's own making
HandlerResult(trigger_type, source_event, ok) ==
    [trigger_type |-> trigger_type, source_id |-> SourceId(source_event),
     target_id |-> IF ok THEN "TGT-001" ELSE None, success |-> ok,
     message |-> <<"handled">>]

\* fire with the handler test placed before the enabled test
FireResultHandlerFirst(trigger_type, source_event, ok) ==
    IF trigger_type \notin DOMAIN specs
    THEN FailureResult(trigger_type, source_event, NoSpecMessage(trigger_type))
    ELSE IF trigger_type \notin handlers
    THEN FailureResult(trigger_type, source_event, NoHandlerMessage(trigger_type))
    ELSE IF ~specs[trigger_type].enabled
    THEN FailureResult(trigger_type, source_event, DisabledMessage(trigger_type))
    ELSE HandlerResult(trigger_type, source_event, ok)

\* TriggerRegistry.fire: the TriggerResult it returns
FireResult(trigger_type, source_event, ok) ==
    IF trigger_type \notin DOMAIN specs
    THEN FailureResult(trigger_type, source_event, NoSpecMessage(trigger_type))
    ELSE IF ~specs[trigger_type].enabled
    THEN FailureResult(trigger_type, source_event, DisabledMessage(trigger_type))
    ELSE IF trigger_type \notin handlers
    THEN FailureResult(trigger_type, source_event, NoHandlerMessage(trigger_type))
    ELSE HandlerResult(trigger_type, source_event, ok)

\* TriggerRegistry.register_spec
register_spec(spec) ==
    /\ specs' = Put(specs, spec.trigger_type, spec)
    /\ UNCHANGED <<handlers, fired>>

\* TriggerRegistry.register_handler
register_handler(trigger_type) ==
    /\ handlers' = handlers \cup {trigger_type}
    /\ UNCHANGED <<specs, fired>>

\* TriggerRegistry.fire; no path of it raises before the handler is called
fire(trigger_type, source_event, ok) ==
    /\ fired' = [op |-> "fire", trigger_type |-> trigger_type,
                 spec_registered |-> trigger_type \in DOMAIN specs,
                 spec_enabled |-> trigger_type \in DOMAIN specs /\ specs[trigger_type].enabled,
                 handler_registered |-> trigger_type \in handlers,
                 raised |-> FALSE,
                 result |-> FireResult(trigger_type, source_event, ok)]
    /\ UNCHANGED <<specs, handlers>>

TriggerInit ==
    /\ specs = EmptyDict
    /\ handlers = {}
    /\ fired = [op |-> "init"]

RegisterSpec == \E spec \in TriggerSpec : Tick /\ register_spec(spec) /\ UNCHANGED <<idVars, tlVars, syncVars, outerVars>>

RegisterHandler ==
    \E trigger_type \in TriggerType :
        Tick /\ register_handler(trigger_type) /\ UNCHANGED <<idVars, tlVars, syncVars, outerVars>>

Fire ==
    \E trigger_type \in TriggerType, source_event \in SourceEvents, ok \in BOOLEAN :
        Tick /\ fire(trigger_type, source_event, ok) /\ UNCHANGED <<idVars, tlVars, syncVars, outerVars>>

(***************************************************************************)
(* Cross-Domain Sync Coordinator                                           *)
(***************************************************************************)
MaxSyncs == 2         \* Coordinators constructed in a run
MaxCreated == 2       \* create_linked_identity calls in a run

\* None where an int is expected (Optional[int])
NoSeed == -1

\* None where a SyncConfig is expected
NoConfig == [none |-> TRUE]

\* SyncConfig(): the dataclass defaults of the fields the Coordinator reads
DefaultSyncConfig ==
    [auto_generate_claims |-> TRUE, auto_generate_fills |-> TRUE,
     claim_delay_days |-> <<0, 3>>, fill_delay_days |-> <<0, 3>>]

\* the SyncConfig values a Coordinator is constructed with
SyncConfig ==
    [auto_generate_claims : BOOLEAN, auto_generate_fills : BOOLEAN,
     claim_delay_days : {<<0, 3>>, <<2, 4>>}, fill_delay_days : {<<0, 3>>, <<0, 1>>}]

\* the seeds a Coordinator is constructed with
SyncSeeds == {NoSeed, 1, 2}

\* self.config = config or SyncConfig()
ConfigOrDefault(config) == IF config = NoConfig THEN DefaultSyncConfig ELSE config

\* CrossDomainSync._setup_default_triggers on an empty TriggerRegistry: its _specs
setup_default_triggers(config) ==
    LET s1 == Put(EmptyDict, "encounter_to_claim",
                  [trigger_type |-> "encounter_to_claim",
                   delay_days |-> config.claim_delay_days,
                   enabled |-> config.auto_generate_claims])
        s2 == Put(s1, "prescription_to_fill",
                  [trigger_type |-> "prescription_to_fill",
                   delay_days |-> config.fill_delay_days,
                   enabled |-> config.auto_generate_fills])
    IN Put(s2, "admission_to_facility_claim",
           [trigger_type |-> "admission_to_facility_claim",
            delay_days |-> <<1, 5>>,
            enabled |-> config.auto_generate_claims])

\* no Coordinator constructed yet
CoordinatorIdle ==
    /\ sync_config = DefaultSyncConfig
    /\ sync_seed = NoSeed
    /\ syncs = 0
    /\ uuids = 0
    /\ created = {}
    /\ validated = [op |-> "init"]

\* the state after CrossDomainSync(config, seed), for the first Coordinator of a run
CoordinatorInit(configs, seeds) ==
    /\ IdentityInit
    /\ handlers = {}
    /\ fired = [op |-> "init"]
    /\ calls = 0
    /\ \E config \in configs :
           /\ sync_config = ConfigOrDefault(config)
           /\ specs = setup_default_triggers(ConfigOrDefault(config))
    /\ sync_seed \in seeds
    /\ syncs = 1
    /\ uuids = 0
    /\ created = {}
    /\ validated = [op |-> "init"]

\* CrossDomainSync.__init__: a further Coordinator, with registries of its own
construct(config, seed) ==
    /\ syncs < MaxSyncs
    /\ syncs' = syncs + 1
    /\ sync_config' = ConfigOrDefault(config)
    /\ sync_seed' = seed
    /\ identities' = EmptyDict
    /\ id_order' = <<>>
    /\ product_indexes' = [p \in ProductType |-> EmptyDict]
    /\ idOp' = [op |-> "init", cid |-> None, product |-> None, product_id |-> None,
                ret |-> None]
    /\ specs' = setup_default_triggers(ConfigOrDefault(config))
    /\ handlers' = {}
    /\ fired' = [op |-> "init"]
    /\ UNCHANGED <<calls, uuids, created, validated>>

Construct ==
    \E config \in SyncConfig \cup {NoConfig}, seed \in SyncSeeds :
        construct(config, seed) /\ UNCHANGED <<tlVars, outerVars>>

\* a further Coordinator with the default configuration
ConstructDefault ==
    \E seed \in SyncSeeds : construct(NoConfig, seed) /\ UNCHANGED <<tlVars, outerVars>>

\* CrossDomainSync.fire_trigger: the Trigger Registry's fire
FireTrigger ==
    \E trigger_type \in TriggerType, source_event \in SourceEvents, ok \in BOOLEAN :
        /\ fire(trigger_type, source_event, ok)
        /\ UNCHANGED <<idVars, tlVars, calls, syncVars, outerVars>>

\* the seeds the operating system's entropy gives random.Random(None)
Entropy == {101, 102}

\* the k-th rng.randint(10000000, 99999999) of random.Random(s)
randint(s, k) == 10000000 + ((s * 7919 + k * 104729 + 13) % 90000000)

\* the seed handed to random.Random: seed or self.seed (0 is falsy as None is)
SeedOr(seed, self_seed) == IF seed # NoSeed /\ seed # 0 THEN seed ELSE self_seed

\* the order in which create_linked_identity draws the per-product ids
DrawOrder == <<"patientsim", "membersim", "rxmembersim", "trialsim">>

\* which draw of the rng makes the id of a product
DrawIndex(products, product) ==
    Cardinality({i \in 1..Len(DrawOrder) :
                    /\ DrawOrder[i] \in products
                    /\ \E j \in i..Len(DrawOrder) : DrawOrder[j] = product})

IdPrefix(product) ==
    CASE product = "patientsim" -> "PAT-"
      [] product = "membersim" -> "MEM-"
      [] product = "rxmembersim" -> "RXM-"
      [] product = "trialsim" -> "SUBJ-"

\* the per-product id create_linked_identity generates (None when not asked for)
GeneratedId(rng_seed, products, product) ==
    IF product \in products
    THEN IdPrefix(product) \o ToString(randint(rng_seed, DrawIndex(products, product)))
    ELSE None

\* hashlib.sha256(s.encode()).hexdigest()[:16]
Sha256Hex16(x) == "sha256[:16](" \o x \o ")"

\* the demographics dicts create_linked_identity is called with (None: key missing)
LinkedDemographics ==
    {[ssn |-> None, date_of_birth |-> None, gender |-> None, first_name |-> None,
      last_name |-> None],
     [ssn |-> "123-45-6789", date_of_birth |-> "date(1980,1,15)", gender |-> "M",
      first_name |-> "John", last_name |-> "Smith"]}

\* the products lists create_linked_identity is called with
LinkedProducts == {{"patientsim"}, {"patientsim", "membersim"}, {"membersim", "trialsim"}}

\* the seed arguments: None, 0 and two other ints
LinkedSeeds == {NoSeed, 0, 1, 2}

\* CrossDomainSync.create_linked_identity, with rng = random.Random(rng_seed)
create_linked_identity(products, demographics, seed, rng_seed) ==
    LET identity ==
            [correlation_id |-> Uuid(uuids + 1),
             ssn_hash |-> IF Truthy(demographics.ssn) THEN Sha256Hex16(demographics.ssn)
                          ELSE None,
             date_of_birth |-> demographics.date_of_birth,
             gender |-> demographics.gender,
             first_name |-> demographics.first_name,
             last_name |-> demographics.last_name,
             patient_id |-> GeneratedId(rng_seed, products, "patientsim"),
             member_id |-> GeneratedId(rng_seed, products, "membersim"),
             rx_member_id |-> GeneratedId(rng_seed, products, "rxmembersim"),
             subject_id |-> GeneratedId(rng_seed, products, "trialsim")]
    IN /\ uuids < MaxCreated
       /\ uuids' = uuids + 1
       /\ register(identity)
       /\ created' = created \cup
               {[seed |-> seed, products |-> products, sync |-> syncs,
                 correlation_id |-> identity.correlation_id, ssn |-> demographics.ssn,
                 patient_id |-> identity.patient_id, member_id |-> identity.member_id,
                 rx_member_id |-> identity.rx_member_id,
                 subject_id |-> identity.subject_id]}
       /\ UNCHANGED <<sync_config, sync_seed, syncs, validated>>

\* random.Random(None) seeds itself from the operating system's entropy
CreateLinkedIdentity ==
    \E products \in LinkedProducts, demographics \in LinkedDemographics,
       seed \in LinkedSeeds, entropy \in Entropy :
        LET s == SeedOr(seed, sync_seed)
        IN /\ create_linked_identity(products, demographics, seed,
                                     IF s = NoSeed THEN entropy ELSE s)
           /\ UNCHANGED <<trigVars, tlVars, calls, outerVars>>

(***************************************************************************)
(* Hashed national ids: hash_ssn and the hash create_linked_identity makes *)
(***************************************************************************)
\* the SSN strings callers pass: one number with and without separators, and another
Ssns == {"123-45-6789", "123456789", "987-65-4321"}

\* the characters of an SSN string
Chars(ssn) ==
    CASE ssn = "123-45-6789" -> <<"1", "2", "3", "-", "4", "5", "-", "6", "7", "8", "9">>
      [] ssn = "123456789" -> <<"1", "2", "3", "4", "5", "6", "7", "8", "9">>
      [] ssn = "987-65-4321" -> <<"9", "8", "7", "-", "6", "5", "-", "4", "3", "2", "1">>

\* str.isdigit on one character
isdigit(c) == c \in {"0", "1", "2", "3", "4", "5", "6", "7", "8", "9"}

\* "".join(c for c in ssn if c.isdigit())
RECURSIVE JoinDigits(_)
JoinDigits(chars) ==
    IF chars = <<>> THEN ""
    ELSE (IF isdigit(Head(chars)) THEN Head(chars) ELSE "") \o JoinDigits(Tail(chars))

\* hash_ssn: the hash of the digits alone
hash_ssn(ssn) == Sha256Hex16(JoinDigits(Chars(ssn)))

\* create_linked_identity for a person known by an SSN alone
CreateLinkedPerson ==
    \E products \in LinkedProducts, ssn \in Ssns, seed \in {1, 2} :
        /\ create_linked_identity(products,
                                  [ssn |-> ssn, date_of_birth |-> None, gender |-> None,
                                   first_name |-> None, last_name |-> None],
                                  seed, seed)
        /\ UNCHANGED <<trigVars, tlVars, calls, outerVars>>

\* find_matches({"ssn_hash": hash_ssn(ssn)}) with the default min_confidence
FindByHashedSsn ==
    /\ idOp.op # "find_matches"
    /\ \E ssn \in Ssns :
           find_matches([ssn_hash |-> hash_ssn(ssn), dob |-> None, gender |-> None,
                         name |-> None],
                        Quotient(8, 10))
    /\ UNCHANGED <<trigVars, tlVars, calls, syncVars, outerVars>>

MaxEntities == 2      \* entities handed to one validate call

\* id_fields.get(product, ["id"]) of _get_entity_id
IdFields(product) ==
    CASE product = "patientsim" -> <<"patient_id", "id">>
      [] product = "membersim" -> <<"member_id", "id">>
      [] product = "rxmembersim" -> <<"rx_member_id", "member_id", "id">>
      [] product = "trialsim" -> <<"subject_id", "id">>
      [] OTHER -> <<"id">>

\* str(x): None becomes the text 'None', which is not None and not empty
StrOf(x) == IF x = None THEN "str(None)" ELSE x

\* CrossDomainSync._get_entity_id on a dict entity: the first id field the entity has
RECURSIVE FirstField(_, _)
FirstField(e, fields) ==
    IF fields = <<>> THEN None
    ELSE IF Head(fields) \in DOMAIN e THEN StrOf(e[Head(fields)])
    ELSE FirstField(e, Tail(fields))

get_entity_id(e, product) == FirstField(e, IdFields(product))

\* f"Entity {entity_id} in {product.value} not in identity registry"
OrphanWarning(entity_id, product) ==
    <<"Entity ", entity_id, " in ", product, " not in identity registry">>

\* the inner loop of validate: the warnings for the entities of one product
RECURSIVE ListWarnings(_, _)
ListWarnings(product, entity_list) ==
    IF entity_list = <<>> THEN <<>>
    ELSE LET entity_id == get_entity_id(Head(entity_list), product)
         IN (IF Truthy(entity_id) /\ get_by_product_id(product, entity_id) = NoIdentity
             THEN <<OrphanWarning(entity_id, product)>>
             ELSE <<>>) \o ListWarnings(product, Tail(entity_list))

\* the outer loop of validate over entities.items(): a dict as the sequence of its
\* (product, entity_list) items
RECURSIVE DictWarnings(_)
DictWarnings(entities) ==
    IF entities = <<>> THEN <<>>
    ELSE ListWarnings(Head(entities)[1], Head(entities)[2]) \o DictWarnings(Tail(entities))

\* a validate that reports the orphans as errors
OutcomeOrphansAsErrors(entities) ==
    [passed |-> DictWarnings(entities) = <<>>, errors |-> DictWarnings(entities),
     warnings |-> <<>>]

\* what validate returns: (passed, errors, warnings); nothing is ever appended to errors
ValidateOutcome(entities) ==
    [passed |-> TRUE, errors |-> <<>>, warnings |-> DictWarnings(entities)]

\* CrossDomainSync.validate
validate(entities) ==
    /\ validated' = [op |-> "validate", entities |-> entities,
                     ret |-> ValidateOutcome(entities)]
    /\ UNCHANGED <<sync_config, sync_seed, syncs, uuids, created>>

\* the entities validate is handed for a product: one per id the registry holds for
\* the product, one with an id it does not hold, one with an empty id, one whose id is
\* None, one with the generic "id" field, one without any id field
EntityChoices(product) ==
    LET field == IdFields(product)[1]
    IN {[f \in {field} |-> x] :
            x \in DOMAIN product_indexes[product] \cup {"ORPHAN-1", "", None}}
       \cup {[f \in {"id"} |-> "ORPHAN-2"], [f \in {"name"} |-> "Jane"]}

EntityLists(product, n) ==
    UNION {[1..k -> EntityChoices(product)] : k \in 0..n}

ValidatedProducts == {"patientsim", "membersim"}

\* the dicts validate is called with: no, one or two products, MaxEntities entities at most
EntityDicts ==
    {<<>>}
    \cup UNION {{<< <<p, l>> >> : l \in EntityLists(p, MaxEntities)} :
                p \in ValidatedProducts}
    \cup UNION {{<< <<pq[1], ll[1]>>, <<pq[2], ll[2]>> >> :
                    ll \in {x \in EntityLists(pq[1], MaxEntities - 1)
                                   \X EntityLists(pq[2], MaxEntities - 1) :
                               Len(x[1]) + Len(x[2]) <= MaxEntities}} :
                pq \in {x \in ValidatedProducts \X ValidatedProducts : x[1] # x[2]}}

\* validate reads the registry and leaves it as it is: a call is explored from every
\* registry the registrations reach, not from the state another call left
Validate ==
    /\ validated.op # "validate"
    /\ \E entities \in EntityDicts :
           validate(entities) /\ UNCHANGED <<idVars, trigVars, tlVars, calls, outerVars>>

\* the identities the validated registry is filled with
CreateValidated ==
    \E products \in {{"patientsim"}, {"patientsim", "membersim"}}, seed \in {1, 2} :
        /\ create_linked_identity(products, CHOOSE d \in LinkedDemographics : d.ssn = None,
                                  seed, SeedOr(seed, sync_seed))
        /\ UNCHANGED <<trigVars, tlVars, calls, outerVars>>

(***************************************************************************)
(* Journey engine (specification sections 3, 4.1, 4.2, 4.3)                *)
(* Dates are day numbers; a delay is a number of whole days.               *)
(***************************************************************************)
MaxSeed == 2          \* root seeds 1..N
MaxEntity == 1        \* entity indexes 0..N
MaxDelay == 2         \* upper end of the sampled delay window, in days
MaxHorizon == 3       \* execute horizons start_date .. start_date + N
MaxExecs == 2         \* execute calls per Timeline
MaxBuilds == 2        \* create_timeline calls per engine

\* the event definitions of a journey, in their original definition order
DefIds == <<"A", "B", "C">>

DefIndexes == 1..Len(DefIds)

DefsIdSet == {DefIds[i] : i \in DefIndexes}

\* an id no definition has (a dangling depends_on)
DanglingId == "X"

\* DelaySpec = { days: int } | { days_min, days_max, distribution }
FixedDelay(days) == [distribution |-> "fixed", days_min |-> days, days_max |-> days]
SampledDelay(lo, hi) == [distribution |-> "uniform", days_min |-> lo, days_max |-> hi]

DelaySpecs == {FixedDelay(0), FixedDelay(1), SampledDelay(0, MaxDelay)}

\* the event types of the definitions: one with a registered handler, one without
EventTypes == {"encounter", "unregistered"}

\* Handler Registry get(product, event_type): is a handler registered
HasHandler(event_type) == event_type = "encounter"

\* position of the definition a depends_on names: 0 for no dependency, -1 if dangling
DepIndex(j, i) ==
    IF j[i].depends_on = None THEN 0
    ELSE IF \E k \in DefIndexes : DefIds[k] = j[i].depends_on
         THEN CHOOSE k \in DefIndexes : DefIds[k] = j[i].depends_on
         ELSE -1

\* the dependency chain of definition i: its dependency, that one's dependency, ...
\* followed for at most n steps
RECURSIVE DepChain(_, _, _)
DepChain(j, i, n) ==
    IF n = 0 \/ DepIndex(j, i) \notin DefIndexes THEN <<>>
    ELSE <<DepIndex(j, i)>> \o DepChain(j, DepIndex(j, i), n - 1)

InChain(chain, i) == \E k \in 1..Len(chain) : chain[k] = i

\* a cycle check that sees self-dependencies only
SelfDependent(j) == {i \in DefIndexes : DepIndex(j, i) = i}

\* step 1: the definitions that lie on a dependency cycle
CycleMembers(j) == {i \in DefIndexes : InChain(DepChain(j, i, Len(DefIds)), i)}

\* step 2: a depends_on that names no definition of the journey
HasDangling(j) == \E i \in DefIndexes : DepIndex(j, i) = -1

\* the elements of S in increasing order of key (keys are distinct)
RECURSIVE SortByKey(_, _)
SortByKey(S, key) ==
    IF S = {} THEN <<>>
    ELSE LET m == CHOOSE x \in S : \A y \in S : key[x] <= key[y]
         IN <<m>> \o SortByKey(S \ {m}, key)

\* step 2: topological order, no-dependency definitions first, definition order within a level
TopologicalOrder(j) ==
    SortByKey(DefIndexes,
              [i \in DefIndexes |-> Len(DepChain(j, i, Len(DefIds))) * (Len(DefIds) + 1) + i])

\* a stream that numbers its draws with an engine-wide counter of builds
StreamDrawCounted(root, ent, k) == ((root * 13 + ent * 7 + (k + builds) * 5 + 1) * 31) % 17

\* 4.1 Seed Hierarchy: draw number k of the stream of (root seed, entity index); a
\* function of the three alone
StreamDraw(root, ent, k) == ((root * 13 + ent * 7 + k * 5 + 1) * 31) % 17

\* 4.2 Distribution Sampler on a delay window: one draw, a whole number of days in
\* [days_min, days_max]
SampleDelay(delay, u) == delay.days_min + (u % (delay.days_max - delay.days_min + 1))

\* every delay counted from the journey start
BaseDateFromStart(j, i, dates, start) == start

\* step 3: the date a delay is counted from: the dependency's resolved date, or the start
BaseDate(j, i, dates, start) ==
    IF DepIndex(j, i) \in DefIndexes THEN dates[DepIndex(j, i)] ELSE start

\* skipping without propagation to dependents
IsSkippedOwnCondition(j, i, skipped) == j[i].condition = FALSE

\* step 4: a definition is skipped if its condition is false or its dependency is skipped
IsSkipped(j, i, skipped) ==
    j[i].condition = FALSE \/ DepIndex(j, i) \in skipped

\* steps 3 and 4 over the definitions in topological order: acc holds the resolved
\* dates, the number of draws taken from the entity's stream, and the skipped definitions
RECURSIVE Resolve(_, _, _, _, _, _, _)
Resolve(j, order, pos, acc, root, ent, start) ==
    IF pos > Len(order) THEN acc
    ELSE LET i == order[pos]
             sampled == j[i].delay.distribution # "fixed"
             days == IF sampled
                     THEN SampleDelay(j[i].delay, StreamDraw(root, ent, acc.draws))
                     ELSE j[i].delay.days_min
             next == [dates |-> [acc.dates EXCEPT ![i] = BaseDate(j, i, acc.dates, start) + days],
                      draws |-> IF sampled THEN acc.draws + 1 ELSE acc.draws,
                      skipped |-> IF IsSkipped(j, i, acc.skipped)
                                  THEN acc.skipped \cup {i} ELSE acc.skipped]
         IN Resolve(j, order, pos + 1, next, root, ent, start)

\* the TimelineEvent of definition i
TimelineEvent(j, i, date) ==
    [event_id |-> DefIds[i], scheduled_date |-> date, event_type |-> j[i].event_type,
     depends_on |-> j[i].depends_on, status |-> "pending", result |-> None]

\* step 5: the order of the events: by resolved date, ties by original definition order
EventOrder(S, dates) ==
    SortByKey(S, [i \in S |-> dates[i] * (Len(DefIds) + 1) + i])

\* Timeline Builder: create_timeline(entity, journey, start_date) on an engine with
\* root seed root; the outcome is an error or the events of the Timeline
BuildTimeline(j, root, ent, start) ==
    IF CycleMembers(j) # {}
    THEN [error |-> "CycleError", cycle |-> {DefIds[i] : i \in CycleMembers(j)},
          events |-> <<>>, skipped |-> {}]
    ELSE IF HasDangling(j)
    THEN [error |-> "MissingDependencyError", cycle |-> {}, events |-> <<>>, skipped |-> {}]
    ELSE LET r == Resolve(j, TopologicalOrder(j), 1,
                          [dates |-> [i \in DefIndexes |-> start], draws |-> 0, skipped |-> {}],
                          root, ent, start)
             order == EventOrder(DefIndexes \ r.skipped, r.dates)
         IN [error |-> None, cycle |-> {},
             events |-> [k \in 1..Len(order) |-> TimelineEvent(j, order[k], r.dates[order[k]])],
             skipped |-> {DefIds[i] : i \in r.skipped}]

NoBuild == [error |-> "not built", cycle |-> {}, events |-> <<>>, skipped |-> {}]

\* JourneyEngine.create_timeline
create_timeline ==
    LET b == BuildTimeline(journey, root_seed, entity, start_date)
    IN /\ builds < MaxBuilds
       /\ builds' = builds + 1
       /\ build' = b
       /\ first_build' = IF builds = 0 THEN b ELSE first_build
       /\ timeline' = b.events
       /\ horizons' = <<>>
       /\ invoked' = <<>>
       /\ before' = b.events
       /\ UNCHANGED <<root_seed, journey, entity, start_date>>

\* the JourneySpecification with the given dependency, delay, condition outcome and
\* event type of each definition
MakeJourney(deps, delays, conds, types) ==
    [i \in DefIndexes |->
        [event_id |-> DefIds[i], depends_on |-> deps[i], delay |-> delays[i],
         condition |-> conds[i], event_type |-> types[i]]]

AllHandled == [i \in DefIndexes |-> "encounter"]

\* at most one definition has a false condition or an event type without handler
FewSpecial(conds, types) ==
    Cardinality({i \in DefIndexes : ~conds[i] \/ ~HasHandler(types[i])}) <= 1

\* journeys for the Builder: dependencies may be dangling or cyclic, at most one
\* condition is false
BuilderJourneys ==
    {MakeJourney(deps, delays, conds, AllHandled) :
        deps \in [DefIndexes -> {None, DanglingId} \cup DefsIdSet],
        delays \in [DefIndexes -> DelaySpecs],
        conds \in {c \in [DefIndexes -> BOOLEAN] : FewSpecial(c, AllHandled)}}

JourneyInit(journeys, seeds, entities) ==
    /\ root_seed \in seeds
    /\ journey \in journeys
    /\ entity \in entities
    /\ start_date \in {0}
    /\ builds = 0
    /\ first_build = NoBuild
    /\ build = NoBuild
    /\ timeline = <<>>
    /\ horizons = <<>>
    /\ invoked = <<>>
    /\ before = <<>>

\* the state of the components a specification does not exercise
JourneyIdle == JourneyInit({<<>>}, {1}, {0})

CreateTimeline == create_timeline /\ UNCHANGED <<idVars, trigVars, calls, syncVars, outerVars>>

(***************************************************************************)
(* Handler Registry and Timeline Executor (specification section 4.4)      *)
(***************************************************************************)
\* the status of the event a depends_on names; a definition that has no event in the
\* Timeline was skipped at build time
StatusOf(events, id) ==
    IF \E k \in 1..Len(events) : events[k].event_id = id
    THEN events[CHOOSE k \in 1..Len(events) : events[k].event_id = id].status
    ELSE "skipped"

\* all dependencies of the event are executed or skipped
DepsSatisfied(events, e) ==
    e.depends_on = None \/ StatusOf(events, e.depends_on) \in {"executed", "skipped"}

\* the events the walk acts on, whatever their status
DueAnyStatus(e, up_to_date) == e.status # "skipped" /\ e.scheduled_date <= up_to_date

\* the events the walk acts on: pending, with date <= up_to_date
Due(e, up_to_date) == e.status = "pending" /\ e.scheduled_date <= up_to_date

\* a walk that ends at the first deferred event
StopAfterDeferred(pos, n) == n + 1

\* the position the walk visits after it deferred the event at pos: the next one
AfterDeferred(pos, n) == pos + 1

\* handler(entity, event, context): the artifact, a function of its arguments
Artifact(ent, e) == <<"artifact", ent, e.event_id, e.scheduled_date>>

\* the walk of execute from position pos on: w holds the events and the ids of the
\* events whose handler was called, in call order
RECURSIVE Walk(_, _, _, _)
Walk(w, pos, ent, up_to_date) ==
    IF pos > Len(w.events) THEN w
    ELSE LET e == w.events[pos]
         IN IF ~Due(e, up_to_date)
            THEN Walk(w, pos + 1, ent, up_to_date)
            ELSE IF ~DepsSatisfied(w.events, e)
            THEN Walk(w, AfterDeferred(pos, Len(w.events)), ent, up_to_date)
            ELSE IF ~HasHandler(e.event_type)
            THEN Walk([w EXCEPT !.events[pos].status = "failed",
                                !.events[pos].result = "NoHandlerError"],
                      pos + 1, ent, up_to_date)
            ELSE Walk([events |-> [w.events EXCEPT ![pos].status = "executed",
                                                   ![pos].result = Artifact(ent, e)],
                       called |-> Append(w.called, e.event_id)],
                      pos + 1, ent, up_to_date)

\* Executor execute(timeline, entity, up_to_date) on the events of a Timeline
ExecuteOn(events, ent, up_to_date) ==
    Walk([events |-> events, called |-> <<>>], 1, ent, up_to_date)

\* JourneyEngine.execute_timeline on the current Timeline
execute_timeline(up_to_date) ==
    LET w == ExecuteOn(timeline, entity, up_to_date)
    IN /\ build.error = None
       /\ Len(horizons) < MaxExecs
       /\ timeline' = w.events
       /\ invoked' = invoked \o w.called
       /\ horizons' = Append(horizons, up_to_date)
       /\ before' = timeline
       /\ UNCHANGED <<root_seed, journey, entity, start_date, builds, first_build, build>>

\* a run is resumed to the same or to a later horizon
ExecuteTimeline ==
    \E up_to_date \in 0..MaxHorizon :
        /\ horizons # <<>> => start_date + up_to_date >= horizons[Len(horizons)]
        /\ execute_timeline(start_date + up_to_date)
        /\ UNCHANGED <<idVars, trigVars, calls, syncVars, outerVars>>

\* the dependency graphs without cycle and without dangling reference
ValidJourney(j) == CycleMembers(j) = {} /\ ~HasDangling(j)

ValidDeps ==
    {deps \in [DefIndexes -> {None} \cup DefsIdSet] :
        ValidJourney(MakeJourney(deps, [i \in DefIndexes |-> FixedDelay(0)],
                                 [i \in DefIndexes |-> TRUE], AllHandled))}

\* the Executor reads resolved dates only: its journeys take fixed delays, which give
\* events on the same day and events on later days
ExecutorDelays == {FixedDelay(0), FixedDelay(1)}

\* journeys for the Executor: valid dependency graphs, at most one definition with a
\* false condition or without a handler
ExecutorJourneys ==
    {MakeJourney(deps, delays, special[1], special[2]) :
        deps \in ValidDeps,
        delays \in [DefIndexes -> ExecutorDelays],
        special \in {x \in [DefIndexes -> BOOLEAN] \X [DefIndexes -> EventTypes] :
                        FewSpecial(x[1], x[2])}}

(***************************************************************************)
(* Product event handlers (handlers.py): the PatientSimHandlers and        *)
(* MemberSimHandlers collections that register_all_handlers builds from    *)
(* one seed, called as handler(entity, event, context).                    *)
(***************************************************************************)
MaxHandlerCalls == 2     \* handler calls explored on one pair of collections

\* None where a dict is expected (TimelineEvent.result)
NoResult == [none |-> TRUE]

\* d.get(k, default)
GetOr(d, k, default) == IF k \in DOMAIN d THEN d[k] ELSE default

\* the dict {k: v}
Dict1(k, v) == [x \in {k} |-> v]

\* random.Random(seed): the state of a generator is the seed it was built from and the
\* number of draws taken from it
NewRandom(seed) == [seed |-> seed, pos |-> 0]

\* the generator after n further draws
Advance(rng, n) == [rng EXCEPT !.pos = @ + n]

\* Random.random(): the next draw, in thousandths
random(rng) == (rng.seed * 7919 + rng.pos * 104729 + 13) % 1000

\* Random.uniform(a, b) = a + (b - a) * random()
uniform(rng, a, b) == a + ((b - a) * random(rng)) \div 1000

\* Random.choice(seq)
choice(rng, seq) == seq[1 + (random(rng) * Len(seq)) \div 1000]

\* PatientSimHandlers.default_facility
default_facility ==
    [facility_id |-> "FAC-001", name |-> "Community General Hospital", npi |-> "1234567890"]

\* PatientSimHandlers.providers
providers ==
    << [provider_id |-> "PROV-001", name |-> "Dr. Sarah Chen", npi |-> "1111111111",
        specialty |-> "Internal Medicine"],
       [provider_id |-> "PROV-002", name |-> "Dr. Michael Brown", npi |-> "2222222222",
        specialty |-> "Family Medicine"],
       [provider_id |-> "PROV-003", name |-> "Dr. Lisa Rodriguez", npi |-> "3333333333",
        specialty |-> "Endocrinology"] >>

\* MemberSimHandlers.plans
plans ==
    << [plan_id |-> "PLAN-MA-001", plan_name |-> "Medicare Advantage Gold", plan_type |-> "MA"],
       [plan_id |-> "PLAN-MA-002", plan_name |-> "Medicare Advantage Silver", plan_type |-> "MA"],
       [plan_id |-> "PLAN-COM-001", plan_name |-> "Commercial PPO", plan_type |-> "Commercial"],
       [plan_id |-> "PLAN-MCD-001", plan_name |-> "Medicaid Standard", plan_type |-> "Medicaid"] >>

\* [p for p in self.plans if p["plan_type"] == plan_type]
RECURSIVE PlansOfType(_, _)
PlansOfType(seq, plan_type) ==
    IF seq = <<>> THEN <<>>
    ELSE (IF Head(seq).plan_type = plan_type THEN <<Head(seq)>> ELSE <<>>)
             \o PlansOfType(Tail(seq), plan_type)

\* the handlers modelled, by the collection that holds them
HandlerNames ==
    [patientsim |-> {"handle_admission", "handle_discharge", "handle_diagnosis"},
     membersim |-> {"handle_new_enrollment", "handle_termination", "handle_claim_professional"}]

HandlerProducts == DOMAIN HandlerNames

CollectionOf(handler) == CHOOSE p \in HandlerProducts : handler \in HandlerNames[p]

\* _get_entity_id of a collection, on a dict entity
HandlerEntityId(product, e) ==
    IF product = "patientsim"
    THEN GetOr(e, "patient_id", GetOr(e, "id", "unknown"))
    ELSE GetOr(e, "member_id", GetOr(e, "id", "unknown"))

\* _generate_id: prefix, "-", and the first 8 hex digits of the md5 of
\* "{seed or 0}:{entity id}:{event id}", in upper case
generate_id(seed, prefix, entity_id, event_id) ==
    prefix \o "-MD5[:8](" \o ToString(SeedOr(seed, 0)) \o ":" \o entity_id \o ":"
           \o event_id \o ")"

\* params = event.result.get("parameters", {}) if event.result else {}
Params(event) ==
    IF event.result = NoResult \/ DOMAIN event.result = {}
    THEN EmptyDict
    ELSE GetOr(event.result, "parameters", EmptyDict)

\* _select_provider(None): the generator's choice among all providers
select_provider(rng) == choice(rng, providers)

\* _select_plan(plan_type): the generator's choice among the plans of the type, or among
\* all plans when no type is given or none has it
select_plan(rng, plan_type) ==
    LET matching == PlansOfType(plans, plan_type)
    IN  IF plan_type # None /\ plan_type # "" /\ matching # <<>>
        THEN choice(rng, matching)
        ELSE choice(rng, plans)

\* Each handler below gives what its call leaves behind: the dict returned (ret), the
\* collection's generator (rng) and the event object (event).
handle_admission(self, e, event, context) ==
    LET patient_id == HandlerEntityId("patientsim", e)
        params == Params(event)
    IN  [ret |-> [encounter_id |-> generate_id(self.seed, "ENC", patient_id,
                                               event.timeline_event_id),
                  patient_id |-> patient_id,
                  encounter_type |-> "inpatient",
                  admission_date |-> isoformat(event.scheduled_date),
                  admission_type |-> GetOr(params, "admission_type", "elective"),
                  facility |-> default_facility,
                  attending_provider |-> select_provider(self.rng),
                  status |-> "active",
                  adt_type |-> "A01"],
         rng |-> Advance(self.rng, 1),
         event |-> event]

handle_discharge(self, e, event, context) ==
    LET patient_id == HandlerEntityId("patientsim", e)
        params == Params(event)
    IN  [ret |-> [encounter_id |-> GetOr(context, "active_encounter_id",
                                         generate_id(self.seed, "ENC", patient_id,
                                                     event.timeline_event_id)),
                  patient_id |-> patient_id,
                  discharge_date |-> isoformat(event.scheduled_date),
                  discharge_disposition |-> GetOr(params, "disposition", "home"),
                  discharge_status |-> GetOr(params, "status", "alive"),
                  status |-> "completed",
                  adt_type |-> "A03"],
         rng |-> self.rng,
         event |-> event]

\* a diagnosis handler that records its own outcome on the event
DiagnosisMarksExecuted(self, e, event, context) ==
    LET patient_id == HandlerEntityId("patientsim", e)
    IN  [ret |-> [condition_id |-> generate_id(self.seed, "COND", patient_id,
                                               event.timeline_event_id),
                  patient_id |-> patient_id],
         rng |-> self.rng,
         event |-> [event EXCEPT !.status = "executed"]]

handle_diagnosis(self, e, event, context) ==
    LET patient_id == HandlerEntityId("patientsim", e)
        params == Params(event)
    IN  [ret |-> [condition_id |-> generate_id(self.seed, "COND", patient_id,
                                               event.timeline_event_id),
                  patient_id |-> patient_id,
                  icd10 |-> GetOr(params, "icd10", "R69"),
                  description |-> GetOr(params, "description", "Illness, unspecified"),
                  onset_date |-> isoformat(event.scheduled_date),
                  clinical_status |-> "active",
                  verification_status |-> "confirmed",
                  category |-> GetOr(params, "category", "encounter-diagnosis")],
         rng |-> self.rng,
         event |-> event]

handle_new_enrollment(self, e, event, context) ==
    LET member_id == HandlerEntityId("membersim", e)
        params == Params(event)
    IN  [ret |-> [enrollment_id |-> generate_id(self.seed, "ENR", member_id,
                                                event.timeline_event_id),
                  member_id |-> member_id,
                  plan |-> select_plan(self.rng, Get(params, "plan_type")),
                  effective_date |-> isoformat(event.scheduled_date),
                  enrollment_type |-> GetOr(params, "enrollment_type", "new"),
                  group_id |-> GetOr(params, "group_id", "GRP-001"),
                  status |-> "active"],
         rng |-> Advance(self.rng, 1),
         event |-> event]

handle_termination(self, e, event, context) ==
    LET member_id == HandlerEntityId("membersim", e)
        params == Params(event)
    IN  [ret |-> [member_id |-> member_id,
                  termination_date |-> isoformat(event.scheduled_date),
                  termination_reason |-> GetOr(params, "reason", "voluntary"),
                  status |-> "terminated"],
         rng |-> self.rng,
         event |-> event]

\* amounts are in cents (round(x, 2)) and factors in thousandths. The default of
\* params.get("billed_amount", ...) is evaluated whether or not the key is present, so
\* the call always takes three draws from the collection's generator.
handle_claim_professional(self, e, event, context) ==
    LET member_id == HandlerEntityId("membersim", e)
        params == Params(event)
        billed == GetOr(params, "billed_amount", uniform(self.rng, 7500, 50000))
        allowed == (billed * uniform(Advance(self.rng, 1), 600, 900)) \div 1000
        paid == (allowed * uniform(Advance(self.rng, 2), 700, 900)) \div 1000
    IN  [ret |-> [claim_id |-> generate_id(self.seed, "CLM", member_id,
                                           event.timeline_event_id),
                  member_id |-> member_id,
                  claim_type |-> "professional",
                  service_date |-> isoformat(event.scheduled_date),
                  provider_npi |-> GetOr(params, "provider_npi", "1234567890"),
                  billed_amount |-> billed,
                  allowed_amount |-> allowed,
                  paid_amount |-> paid,
                  member_responsibility |-> allowed - paid,
                  status |-> "paid"],
         rng |-> Advance(self.rng, 3),
         event |-> event]

\* the bound method a name stands for, called
Invoke(handler, self, e, event, context) ==
    CASE handler = "handle_admission" -> handle_admission(self, e, event, context)
      [] handler = "handle_discharge" -> handle_discharge(self, e, event, context)
      [] handler = "handle_diagnosis" -> handle_diagnosis(self, e, event, context)
      [] handler = "handle_new_enrollment" -> handle_new_enrollment(self, e, event, context)
      [] handler = "handle_termination" -> handle_termination(self, e, event, context)
      [] handler = "handle_claim_professional" ->
             handle_claim_professional(self, e, event, context)

\* the seeds register_all_handlers is given
HandlerSeeds == {NoSeed, 0, 42}

\* dict entities
HandlerEntities == {[patient_id |-> "P001", member_id |-> "M001"], [id |-> "X1"]}

\* TimelineEvent objects as the Builder or the Executor hands them over
TimelineEvents ==
    [timeline_event_id : {"e1"},
     scheduled_date : {"date(1980,1,15)"},
     event_name : {"Visit"},
     status : {"pending"},
     result : {NoResult,
               Dict1("parameters", Put(Dict1("plan_type", "MA"), "billed_amount", 20000))}]

Contexts == {EmptyDict, Dict1("active_encounter_id", "ENC-7")}

\* PatientSimHandlers(seed) and MemberSimHandlers(seed), and no call made
HandlersInit(seeds) ==
    /\ h_seed \in seeds
    /\ h_rng \in [HandlerProducts ->
                     {NewRandom(s) : s \in IF h_seed = NoSeed THEN Entropy ELSE {h_seed}}]
    /\ h_event \in TimelineEvents
    /\ h_calls = <<>>

HandlersIdle == HandlersInit({0}) /\ h_event.result = NoResult

\* one call handler(entity, event, context) of a registered handler
CallHandler ==
    /\ Len(h_calls) < MaxHandlerCalls
    /\ \E product \in HandlerProducts :
       \E handler \in HandlerNames[product], e \in HandlerEntities,
          event \in TimelineEvents, context \in Contexts :
           LET out == Invoke(handler, [seed |-> h_seed, rng |-> h_rng[product]],
                             e, event, context)
           IN  /\ h_rng' = [h_rng EXCEPT ![product] = out.rng]
               /\ h_event' = out.event
               /\ h_calls' = Append(h_calls, [handler |-> handler, entity |-> e,
                                              event |-> event, context |-> context,
                                              ret |-> out.ret])
    /\ UNCHANGED h_seed
    /\ UNCHANGED <<coreVars, seedVars, profileVars, genVars, tjVars>>

(***************************************************************************)
(* Seed Hierarchy (spec 4.1), as the profile executors use it: each        *)
(* executor holds a HierarchicalSeedManager built from its root seed and   *)
(* asks it for the stream of an entity index (get_entity_rng) or for the   *)
(* next sequential child seed (get_child_seed).  The manager's module,     *)
(* healthsim.generation.profile_executor, is not among the sources.        *)
(***************************************************************************)
MaxRequests == 3         \* stream and child-seed requests explored
MaxStreamDraws == 2      \* draws a consumer takes from one stream

\* the two Seed Hierarchy instances of a MemberProfileExecutor: its own and the one of
\* the core executor it wraps, both built from the executor's seed
Managers == {"member", "core"}

\* what a stream is requested for; get_entity_rng asks for the entity's own stream
Purposes == {"entity", "timeline"}

PurposeIndex(purpose) == IF purpose = "entity" THEN 0 ELSE 1

\* a hierarchy that numbers a stream's draws after the child seeds it has handed out
PairDrawAfterChildren(manager, ent, purpose, k) ==
    StreamDraw(manager.root, ent * Cardinality(Purposes) + PurposeIndex(purpose),
               k + manager.children)

\* draw number k of the stream of (entity index, purpose) under the manager's root seed
PairDraw(manager, ent, purpose, k) ==
    StreamDraw(manager.root, ent * Cardinality(Purposes) + PurposeIndex(purpose), k)

\* the n-th sequential child seed under a root seed
ChildSeed(root, n) == StreamDraw(root, (MaxEntity + 1) * Cardinality(Purposes) + n, 0)

\* HierarchicalSeedManager(self.seed) for both instances, nothing requested
SeedManagersInit(roots) ==
    /\ \E root \in roots : seed_managers = [m \in Managers |-> [root |-> root, children |-> 0]]
    /\ stream_log = <<>>

SeedManagersIdle == SeedManagersInit({1})

\* rng = seed_manager.get_entity_rng(index) and the n draws its consumer takes from rng
\* (_extend_to_member, _generate_rx_member); a stream of another purpose likewise
DrawFromStream ==
    /\ Len(stream_log) < MaxRequests
    /\ \E inst \in Managers, ent \in 0..MaxEntity, purpose \in Purposes,
          n \in {1, MaxStreamDraws} :
           stream_log' =
               Append(stream_log,
                      [op |-> "stream", inst |-> inst, ent |-> ent, purpose |-> purpose,
                       samples |-> [k \in 1..n |->
                                       PairDraw(seed_managers[inst], ent, purpose, k)]])
    /\ UNCHANGED seed_managers
    /\ UNCHANGED <<coreVars, hVars, profileVars, genVars, tjVars>>

\* seed_manager.get_child_seed(): the next sequential child seed of the instance
GetChildSeed ==
    /\ Len(stream_log) < MaxRequests
    /\ \E inst \in Managers :
           /\ seed_managers' = [seed_managers EXCEPT ![inst].children = @ + 1]
           /\ stream_log' =
                  Append(stream_log,
                         [op |-> "child", inst |-> inst, ent |-> 0, purpose |-> "child",
                          samples |-> <<ChildSeed(seed_managers[inst].root,
                                                  seed_managers[inst].children + 1)>>])
    /\ UNCHANGED <<coreVars, hVars, profileVars, genVars, tjVars>>

(***************************************************************************)
(* Profile persistence (state/profile_manager.py): the profiles table of a *)
(* ProfileManager under save_profile, update_profile and delete_profile.   *)
(***************************************************************************)
MaxProfileCalls == 3     \* ProfileManager calls explored on one connection

\* f"profile-{uuid4().hex[:8]}" of the n-th uuid4 drawn
ProfileId(n) == "profile-" \o Uuid(n)

\* profile names callers use; the second is also the id the first save returns
ProfileNames == {"harris-diabetic", ProfileId(1)}

\* json.dumps(profile_spec) of the specifications callers save
ProfileSpecs == {"{count: 100}", "{count: 200}"}

\* the rows of the table whose name or id is the argument: WHERE name = ? OR id = ?
RowsNamed(table, name_or_id) ==
    {id \in DOMAIN table : table[id].name = name_or_id \/ id = name_or_id}

\* SELECT id FROM profiles WHERE name = ?
RowsWithName(table, name) == {id \in DOMAIN table : table[id].name = name}

\* INSERT INTO profiles under PRIMARY KEY (id) and UNIQUE (name): the table with the
\* row, or the table as it was when a constraint rejects the row
Insert(table, id, row) ==
    IF id \in DOMAIN table \/ RowsWithName(table, row.name) # {}
    THEN table
    ELSE Put(table, id, row)

\* DELETE FROM profiles WHERE id = ?
DeleteRow(table, id) == [x \in (DOMAIN table) \ {id} |-> table[x]]

\* a save_profile that inserts without looking for the name, into a table that does
\* not enforce it
SaveWithoutNameCheck(name, profile_spec) ==
    /\ uuids' = uuids + 1
    /\ profiles' = Put(profiles, ProfileId(uuids + 1),
                       [name |-> name, version |-> 1, profile_spec |-> profile_spec])
    /\ pm_log' = Append(pm_log, [op |-> "save_profile", arg |-> name,
                                 target |-> ProfileId(uuids + 1), bump_version |-> FALSE,
                                 outcome |-> ProfileId(uuids + 1)])

\* ProfileManager.save_profile: the id is drawn before the name is looked up
save_profile(name, profile_spec) ==
    LET profile_id == ProfileId(uuids + 1)
        existing == RowsWithName(profiles, name)
    IN  /\ uuids' = uuids + 1
        /\ IF existing # {}
           THEN /\ profiles' = profiles
                /\ pm_log' = Append(pm_log, [op |-> "save_profile", arg |-> name,
                                             target |-> None, bump_version |-> FALSE,
                                             outcome |-> "ValueError"])
           ELSE /\ profiles' = Insert(profiles, profile_id,
                                      [name |-> name, version |-> 1,
                                       profile_spec |-> profile_spec])
                /\ pm_log' = Append(pm_log, [op |-> "save_profile", arg |-> name,
                                             target |-> profile_id, bump_version |-> FALSE,
                                             outcome |-> profile_id])

\* an update_profile that increments the version whatever bump_version says
UpdateAlwaysBumps(name_or_id, profile_spec, bump_version) ==
    /\ RowsNamed(profiles, name_or_id) # {}
    /\ \E id \in RowsNamed(profiles, name_or_id) :
           /\ profiles' = [profiles EXCEPT ![id].version = @ + 1]
           /\ pm_log' = Append(pm_log, [op |-> "update_profile", arg |-> name_or_id,
                                        target |-> id, bump_version |-> bump_version,
                                        outcome |-> id])
    /\ UNCHANGED uuids

\* ProfileManager.update_profile: load_profile raises ValueError when no row has the
\* name or the id; when rows of both kinds match, fetchone returns either of them
update_profile(name_or_id, profile_spec, bump_version) ==
    /\ IF RowsNamed(profiles, name_or_id) = {}
       THEN /\ profiles' = profiles
            /\ pm_log' = Append(pm_log, [op |-> "update_profile", arg |-> name_or_id,
                                         target |-> None, bump_version |-> bump_version,
                                         outcome |-> "ValueError"])
       ELSE \E id \in RowsNamed(profiles, name_or_id) :
               LET existing == profiles[id]
                   new_version == IF bump_version THEN existing.version + 1
                                  ELSE existing.version
                   new_spec == IF profile_spec # None THEN profile_spec
                               ELSE existing.profile_spec
               IN  /\ profiles' = [profiles EXCEPT ![id] =
                                      [name |-> existing.name, version |-> new_version,
                                       profile_spec |-> new_spec]]
                   /\ pm_log' = Append(pm_log, [op |-> "update_profile",
                                                arg |-> name_or_id, target |-> id,
                                                bump_version |-> bump_version,
                                                outcome |-> id])
    /\ UNCHANGED uuids

\* ProfileManager.delete_profile: False when no row has the name or the id
delete_profile(name_or_id) ==
    /\ IF RowsNamed(profiles, name_or_id) = {}
       THEN /\ profiles' = profiles
            /\ pm_log' = Append(pm_log, [op |-> "delete_profile", arg |-> name_or_id,
                                         target |-> None, bump_version |-> FALSE,
                                         outcome |-> "False"])
       ELSE \E id \in RowsNamed(profiles, name_or_id) :
               /\ profiles' = DeleteRow(profiles, id)
               /\ pm_log' = Append(pm_log, [op |-> "delete_profile", arg |-> name_or_id,
                                            target |-> id, bump_version |-> FALSE,
                                            outcome |-> "True"])
    /\ UNCHANGED uuids

\* ProfileManager(conn) on a fresh connection: _ensure_tables creates an empty table
ProfilesInit == profiles = EmptyDict /\ pm_log = <<>>

\* what the profile calls leave alone
ProfileFrame ==
    UNCHANGED <<idVars, trigVars, tlVars, calls, sync_config, sync_seed, syncs, created,
                validated, hVars, seedVars, genVars, tjVars>>

SaveProfile ==
    /\ Len(pm_log) < MaxProfileCalls
    /\ \E name \in ProfileNames, profile_spec \in ProfileSpecs :
           save_profile(name, profile_spec)
    /\ ProfileFrame

UpdateProfile ==
    /\ Len(pm_log) < MaxProfileCalls
    /\ \E name_or_id \in ProfileNames, profile_spec \in {None, "{count: 200}"},
          bump_version \in BOOLEAN :
           update_profile(name_or_id, profile_spec, bump_version)
    /\ ProfileFrame

DeleteProfile ==
    /\ Len(pm_log) < MaxProfileCalls
    /\ \E name_or_id \in ProfileNames : delete_profile(name_or_id)
    /\ ProfileFrame

(***************************************************************************)
(* generate(profile, count, seed, **overrides) of membersim, rxmembersim   *)
(* and trialsim, called with a specification object                        *)
(***************************************************************************)
MaxGenerates == 2

\* count: int | None = None
NoCount == -1

\* x or default, for an Optional[int]: None and 0 are falsy
IntOr(x, default) == IF x # NoCount /\ x # 0 THEN x ELSE default

GenerateProducts == {"membersim", "rxmembersim", "trialsim"}

\* the specification object a caller of each product holds: the fields generate reads
\* or writes (rxmembersim's kwargs are looked up on spec.generation and spec.coverage)
SpecObject(product, count, seed) ==
    IF product = "rxmembersim"
    THEN [name |-> "Custom Profile", coverage |-> [coverage_type |-> "Commercial"],
          generation |-> [count |-> count, seed |-> seed]]
    ELSE [name |-> "Custom Profile", generation |-> [count |-> count, seed |-> seed]]

\* the keyword overrides of a call
Overrides(product) ==
    IF product = "rxmembersim"
    THEN {EmptyDict, Dict1("coverage_type", "Medicare"), Dict1("name", "custom")}
    ELSE {EmptyDict, Dict1("name", "custom")}

\* data[key] = value for every override whose key has no dot
apply_overrides(data, overrides) ==
    [f \in DOMAIN data |-> IF f \in DOMAIN overrides THEN overrides[f] ELSE data[f]]

\* membersim: the executor runs on a validated copy; the caller's object is not the
\* object the overrides or the executor touch
generate_membersim(profile, count, seed, overrides, entropy) ==
    LET copy == profile
        spec == IF overrides # EmptyDict THEN apply_overrides(copy, overrides) ELSE copy
    IN  [caller |-> profile,
         run |-> [name |-> spec.name,
                  count |-> IntOr(count, spec.generation.count),
                  seed |-> IntOr(seed, IntOr(spec.generation.seed, entropy))]]

\* for key, value in kwargs.items(): setattr on spec.generation, else on spec.coverage,
\* when the attribute exists
setattr_kwargs(spec, kwargs) ==
    [spec EXCEPT
        !.generation = [f \in DOMAIN @ |-> IF f \in DOMAIN kwargs THEN kwargs[f] ELSE @[f]],
        !.coverage = [f \in DOMAIN @ |->
                         IF f \in DOMAIN kwargs /\ f \notin DOMAIN spec.generation
                         THEN kwargs[f] ELSE @[f]]]

\* rxmembersim: spec = profile is the caller's object, and every assignment lands on it
generate_rxmembersim(profile, count, seed, kwargs) ==
    LET with_count == IF count # NoCount THEN [profile EXCEPT !.generation.count = count]
                      ELSE profile
        with_seed == IF seed # NoSeed THEN [with_count EXCEPT !.generation.seed = seed]
                     ELSE with_count
        spec == setattr_kwargs(with_seed, kwargs)
    IN  [caller |-> spec,
         run |-> [name |-> spec.name, count |-> spec.generation.count,
                  seed |-> IntOr(spec.generation.seed, 42)]]

\* trialsim: a validated copy when there are overrides, the caller's object otherwise;
\* count and seed are then assigned on whichever it is
generate_trialsim(profile, count, seed, overrides) ==
    LET aliased == overrides = EmptyDict
        resolved == IF aliased THEN profile ELSE apply_overrides(profile, overrides)
        with_count == IF count # NoCount THEN [resolved EXCEPT !.generation.count = count]
                      ELSE resolved
        spec == IF seed # NoSeed THEN [with_count EXCEPT !.generation.seed = seed]
                ELSE with_count
    IN  [caller |-> IF aliased THEN spec ELSE profile,
         run |-> [name |-> spec.name, count |-> spec.generation.count,
                  seed |-> IntOr(spec.generation.seed, 42)]]

generate(product, profile, count, seed, overrides, entropy) ==
    CASE product = "membersim" -> generate_membersim(profile, count, seed, overrides, entropy)
      [] product = "rxmembersim" -> generate_rxmembersim(profile, count, seed, overrides)
      [] product = "trialsim" -> generate_trialsim(profile, count, seed, overrides)

\* a caller of each product holding one specification object, before any generate call
GenerateInit(counts, seeds) ==
    /\ \E count \in counts, seed \in seeds :
           caller_spec = [product \in GenerateProducts |-> SpecObject(product, count, seed)]
    /\ gen_log = <<>>

GenerateIdle == GenerateInit({100}, {NoSeed})

\* generate(caller_spec[product], count=count, seed=seed, **overrides)
Generate ==
    /\ Len(gen_log) < MaxGenerates
    /\ \E product \in GenerateProducts :
       \E count \in {NoCount, 5}, seed \in {NoSeed, 42}, overrides \in Overrides(product),
          entropy \in {101} :
           LET out == generate(product, caller_spec[product], count, seed, overrides,
                               entropy)
           IN  /\ caller_spec' = [caller_spec EXCEPT ![product] = out.caller]
               /\ gen_log' = Append(gen_log, [product |-> product, count |-> count,
                                              seed |-> seed, overrides |-> overrides,
                                              before |-> caller_spec[product],
                                              run |-> out.run])
    /\ UNCHANGED <<coreVars, hVars, seedVars, profileVars, tjVars>>

(***************************************************************************)
(* The built-in trial journey templates (trialsim/journeys/templates.py)   *)
(* and the JourneySpecification invariant on their dependencies            *)
(***************************************************************************)
\* an event definition of a template: the keys the dependency graph is made of
TrialEvent(event_id, depends_on) == [event_id |-> event_id, depends_on |-> depends_on]

phase3_oncology_standard ==
    <<TrialEvent("screening", None),
      TrialEvent("randomization", "screening"),
      TrialEvent("baseline", "randomization"),
      TrialEvent("week2", "baseline"),
      TrialEvent("week4", "baseline"),
      TrialEvent("week8", "baseline"),
      TrialEvent("week12", "baseline"),
      TrialEvent("week16", "baseline"),
      TrialEvent("week24", "baseline"),
      TrialEvent("followup_30day", "week24"),
      TrialEvent("survival_followup", "week24")>>

phase2_diabetes_dose_finding ==
    <<TrialEvent("screening", None),
      TrialEvent("run_in", "screening"),
      TrialEvent("randomization", "run_in"),
      TrialEvent("baseline", "randomization"),
      TrialEvent("week2", "baseline"),
      TrialEvent("week4", "baseline"),
      TrialEvent("week8", "baseline"),
      TrialEvent("week12", "baseline"),
      TrialEvent("followup", "week12")>>

phase1_healthy_volunteer ==
    <<TrialEvent("screening", None),
      TrialEvent("admission", "screening"),
      TrialEvent("randomization", "admission"),
      TrialEvent("dosing", "randomization"),
      TrialEvent("day2", "dosing"),
      TrialEvent("day3", "day2"),
      TrialEvent("discharge", "day3"),
      TrialEvent("followup", "discharge")>>

phase2_cardiology_long_term ==
    <<TrialEvent("screening", None),
      TrialEvent("randomization", "screening"),
      TrialEvent("baseline", "randomization"),
      TrialEvent("week4", "baseline"),
      TrialEvent("week12", "baseline"),
      TrialEvent("week26", "baseline"),
      TrialEvent("week39", "baseline"),
      TrialEvent("week52", "baseline"),
      TrialEvent("followup", "week52")>>

\* the template with its first follow-up waiting for an event the template does not have
RweWithUndefinedDependency ==
    <<TrialEvent("enrollment", None),
      TrialEvent("baseline_assessment", "enrollment"),
      TrialEvent("month3", "baseline"),
      TrialEvent("month6", "baseline_assessment"),
      TrialEvent("month9", "baseline_assessment"),
      TrialEvent("month12", "baseline_assessment")>>

rwe_observational ==
    <<TrialEvent("enrollment", None),
      TrialEvent("baseline_assessment", "enrollment"),
      TrialEvent("month3", "baseline_assessment"),
      TrialEvent("month6", "baseline_assessment"),
      TrialEvent("month9", "baseline_assessment"),
      TrialEvent("month12", "baseline_assessment")>>

TRIAL_JOURNEY_TEMPLATES ==
    [template_id \in {"phase3-oncology-standard", "phase2-diabetes-dose-finding",
                      "phase1-healthy-volunteer", "phase2-cardiology-long-term",
                      "rwe-observational"} |->
        CASE template_id = "phase3-oncology-standard" -> phase3_oncology_standard
          [] template_id = "phase2-diabetes-dose-finding" -> phase2_diabetes_dose_finding
          [] template_id = "phase1-healthy-volunteer" -> phase1_healthy_volunteer
          [] template_id = "phase2-cardiology-long-term" -> phase2_cardiology_long_term
          [] template_id = "rwe-observational" -> rwe_observational]

\* TRIAL_JOURNEY_TEMPLATES.get(template_id): the template's id, or None
get_trial_journey_template(template_id) ==
    IF template_id \in DOMAIN TRIAL_JOURNEY_TEMPLATES THEN template_id ELSE None

\* the event ids a template defines
EventIdsOf(template_id) ==
    {TRIAL_JOURNEY_TEMPLATES[template_id][i].event_id :
        i \in DOMAIN TRIAL_JOURNEY_TEMPLATES[template_id]}

\* the definition with the given event id (the first, in definition order)
EventNamed(template_id, event_id) ==
    LET events == TRIAL_JOURNEY_TEMPLATES[template_id]
        first == CHOOSE i \in DOMAIN events :
                     /\ events[i].event_id = event_id
                     /\ \A k \in 1..(i - 1) : events[k].event_id # event_id
    IN  events[first]

InSeq(seq, x) == \E k \in DOMAIN seq : seq[k] = x

\* no template has been fetched
TemplatesIdle == tj_template = None /\ tj_chain = <<>> /\ tj_verdict = "idle"

\* get_trial_journey_template(template_id), for the ids of list_trial_journey_templates
\* and an id no template has
GetTrialJourneyTemplate ==
    /\ \E template_id \in DOMAIN TRIAL_JOURNEY_TEMPLATES \cup {"phase4-unknown"} :
           tj_template' = get_trial_journey_template(template_id)
    /\ tj_chain' = <<>>
    /\ tj_verdict' = "idle"
    /\ UNCHANGED <<coreVars, hVars, seedVars, profileVars, genVars>>

\* checking the invariant for one event of the fetched template: start at the event
StartWalk ==
    /\ tj_template # None
    /\ \E event_id \in EventIdsOf(tj_template) : tj_chain' = <<event_id>>
    /\ tj_verdict' = "walking"
    /\ UNCHANGED tj_template
    /\ UNCHANGED <<coreVars, hVars, seedVars, profileVars, genVars>>

\* ... and follow the depends_on of the event reached: it names no event of the template,
\* names one already passed, names a further one, or there is none
FollowDependency ==
    /\ tj_verdict = "walking"
    /\ LET dep == EventNamed(tj_template, tj_chain[Len(tj_chain)]).depends_on
       IN  IF dep = None
           THEN tj_verdict' = "resolved" /\ UNCHANGED tj_chain
           ELSE IF dep \notin EventIdsOf(tj_template)
           THEN tj_verdict' = "dangling" /\ tj_chain' = Append(tj_chain, dep)
           ELSE IF InSeq(tj_chain, dep)
           THEN tj_verdict' = "cycle" /\ tj_chain' = Append(tj_chain, dep)
           ELSE tj_verdict' = "walking" /\ tj_chain' = Append(tj_chain, dep)
    /\ UNCHANGED tj_template
    /\ UNCHANGED <<coreVars, hVars, seedVars, profileVars, genVars>>

\* no component around the registries and the engine has been used
OuterIdle ==
    HandlersIdle /\ SeedManagersIdle /\ ProfilesInit /\ GenerateIdle /\ TemplatesIdle

RegistryInit == IdentityInit /\ TriggerInit /\ calls = 0 /\ CoordinatorIdle

Init == RegistryInit /\ JourneyIdle /\ OuterIdle

\* the Timeline Builder on every journey
BuilderInit ==
    RegistryInit /\ JourneyInit(BuilderJourneys, 1..MaxSeed, 0..MaxEntity) /\ OuterIdle

(***************************************************************************)
(* Specifications                                                          *)
(***************************************************************************)
\* the Identity Registry under serialized callers
IdentityNext == Register \/ LinkProductId

IdentitySpec == Init /\ [][IdentityNext]_vars

\* the Trigger Registry
TriggerNext == RegisterSpec \/ RegisterHandler \/ Fire

TriggerSpecification == Init /\ [][TriggerNext]_vars

\* the Timeline Executor on Timelines built from valid journeys
ExecutorInit ==
    RegistryInit /\ JourneyInit(ExecutorJourneys, {1}, {0}) /\ OuterIdle

ExecutorSpec == ExecutorInit /\ [][CreateTimeline \/ ExecuteTimeline]_vars

\* the Timeline Builder
BuilderSpec == BuilderInit /\ [][CreateTimeline]_vars

\* find_matches on a registry of persons
MatchSpec == Init /\ [][RegisterPerson \/ FindMatches]_vars

\* create_linked_identity on Coordinators of the default configuration
DefaultCoordinators == CoordinatorInit({NoConfig}, SyncSeeds) /\ JourneyIdle /\ OuterIdle

CoordinatorSpec == DefaultCoordinators /\ [][ConstructDefault \/ CreateLinkedIdentity]_vars

\* validate on the registry of a default Coordinator
DefaultCoordinator == CoordinatorInit({NoConfig}, {NoSeed}) /\ JourneyIdle /\ OuterIdle

ValidationSpec == DefaultCoordinator /\ [][CreateValidated \/ Validate]_vars

\* the default triggers of Coordinators of every configuration
ConfiguredCoordinators ==
    CoordinatorInit(SyncConfig \cup {NoConfig}, SyncSeeds) /\ JourneyIdle /\ OuterIdle

TriggerSetupSpec == ConfiguredCoordinators /\ [][Construct \/ FireTrigger]_vars

\* handler calls on the collections of one seed
HandlerInit ==
    /\ RegistryInit /\ JourneyIdle /\ HandlersInit(HandlerSeeds) /\ SeedManagersIdle
    /\ ProfilesInit /\ GenerateIdle /\ TemplatesIdle

HandlerSpec == HandlerInit /\ [][CallHandler]_vars

\* the Seed Hierarchy instances of an executor, for every root seed
SeedHierarchyInit ==
    /\ RegistryInit /\ JourneyIdle /\ HandlersIdle /\ SeedManagersInit(1..MaxSeed)
    /\ ProfilesInit /\ GenerateIdle /\ TemplatesIdle

SeedHierarchySpec == SeedHierarchyInit /\ [][DrawFromStream \/ GetChildSeed]_vars

\* the ProfileManager of a fresh connection
ProfileSpec == Init /\ [][SaveProfile \/ UpdateProfile \/ DeleteProfile]_vars

\* persons created from an SSN and looked up by hash_ssn
LinkedMatchSpec == DefaultCoordinator /\ [][CreateLinkedPerson \/ FindByHashedSsn]_vars

\* generate on the specification object a caller holds
GenerateSpecInit ==
    /\ RegistryInit /\ JourneyIdle /\ HandlersIdle /\ SeedManagersIdle /\ ProfilesInit
    /\ GenerateInit({10, 100}, {NoSeed, 7}) /\ TemplatesIdle

GenerateSpec == GenerateSpecInit /\ [][Generate]_vars

\* the JourneySpecification invariant checked on the built-in trial journey templates
TemplateSpec == Init /\ [][GetTrialJourneyTemplate \/ StartWalk \/ FollowDependency]_vars

Next == IdentityNext \/ TriggerNext

Spec == Init /\ [][Next]_vars

(***************************************************************************)
(* Identity Registry properties                                            *)
(***************************************************************************)
\* C1: after register(identity) has returned cid, link_product_id(cid, product, id)
\* followed by get_by_product_id(product, id) returns the identity whose
\* correlation_id equals cid.
C1_RoundTrip ==
    (idOp.op = "link_product_id" /\ idOp.cid \in DOMAIN identities) =>
        LET found == get_by_product_id(idOp.product, idOp.product_id)
        IN found # NoIdentity /\ found.correlation_id = idOp.cid

\* C2: every product-index entry (product, id) -> cid refers to an identity that is
\* stored under cid and whose own key for that product equals id.
C2_IndexConsistent ==
    \A product \in KeyProducts :
        \A product_id \in DOMAIN product_indexes[product] :
            LET cid == product_indexes[product][product_id]
            IN /\ cid \in DOMAIN identities
               /\ KeyOf(identities[cid], product) = product_id

\* C15: link_product_id called with a correlation id that is not registered returns
\* false and leaves the identity store and every product index unchanged.
C15_LinkUnknownIsSoftFailure ==
    [][(idOp'.op = "link_product_id" /\ idOp'.cid \notin DOMAIN identities) =>
           /\ idOp'.ret = FALSE
           /\ identities' = identities
           /\ id_order' = id_order
           /\ product_indexes' = product_indexes]_vars

\* link_product_id was called with an unregistered correlation id on a registry that
\* holds another identity and an index entry, and returned false
C15_Witness ==
    /\ idOp.op = "link_product_id"
    /\ idOp.cid \notin DOMAIN identities
    /\ idOp.ret = FALSE
    /\ identities # EmptyDict
    /\ \E product \in ProductType : product_indexes[product] # EmptyDict

\* C16: per-product keys are only ever added: once a registered identity holds a key
\* for a product, no register or link_product_id call leaves that identity without a
\* key for that product.
C16_KeysOnlyAdded ==
    [][\A cid \in DOMAIN identities, product \in KeyProducts :
           Truthy(KeyOf(identities[cid], product)) =>
               /\ cid \in DOMAIN identities'
               /\ Truthy(KeyOf(identities'[cid], product))]_vars

(***************************************************************************)
(* Identity matching properties                                            *)
(***************************************************************************)
CorrelatorNames == {"ssn_hash", "dob", "gender", "name"}

WeightOf(c) ==
    CASE c = "ssn_hash" -> SsnWeight
      [] c = "dob" -> DobWeight
      [] c = "gender" -> GenderWeight
      [] c = "name" -> NameWeight

RECURSIVE SumOfWeights(_)
SumOfWeights(S) ==
    IF S = {} THEN 0
    ELSE LET c == CHOOSE x \in S : TRUE IN WeightOf(c) + SumOfWeights(S \ {c})

\* the correlators the query and the identity both hold (None and "" hold nothing)
PresentOnBoth(identity, correlators) ==
    {c \in CorrelatorNames :
        Truthy(correlators[c]) /\ Truthy(to_correlator_dict(identity)[c])}

\* those of them on which the two agree exactly
Agreeing(identity, correlators) ==
    {c \in PresentOnBoth(identity, correlators) :
        correlators[c] = to_correlator_dict(identity)[c]}

\* C11: the confidence find_matches reports for an identity is the sum of the weights
\* of the correlators present on both sides that agree exactly, divided by the sum of
\* the weights of the correlators present on both sides; a correlator absent on either
\* side is in neither sum.
C11_ConfidenceIsWeightedAgreement ==
    idOp.op = "find_matches" =>
        \A k \in 1..Len(idOp.ret) :
            LET m == idOp.ret[k]
                both == SumOfWeights(PresentOnBoth(m.identity, idOp.correlators))
                agree == SumOfWeights(Agreeing(m.identity, idOp.correlators))
            IN both > 0 => m.score.num * both = agree * m.score.den

\* find_matches with min_confidence 0.0 reported every stored identity, one of them
\* with a confidence strictly between 0 and 1 although it lacks a correlator of the query
C11_Witness ==
    /\ idOp.op = "find_matches"
    /\ Len(id_order) = 2
    /\ Len(idOp.ret) = 2
    /\ \E k \in 1..2 :
           LET m == idOp.ret[k]
           IN /\ 0 < m.score.num /\ m.score.num < m.score.den
              /\ \E c \in CorrelatorNames :
                     /\ Truthy(idOp.correlators[c])
                     /\ ~Truthy(to_correlator_dict(m.identity)[c])

\* the confidence of an identity for a query as C11 states it (0.0 when the two share
\* no correlator)
Confidence(identity, correlators) ==
    LET both == SumOfWeights(PresentOnBoth(identity, correlators))
        agree == SumOfWeights(Agreeing(identity, correlators))
    IN IF both = 0 THEN Zero ELSE Quotient(agree, both)

\* C12: find_matches(correlators, min_confidence) returns exactly the registered
\* identities whose confidence is >= min_confidence, each once and paired with its
\* confidence, in order of non-increasing confidence.
C12_MatchesFilteredAndOrdered ==
    idOp.op = "find_matches" =>
        LET ret == idOp.ret
            expected == {cid \in DOMAIN identities :
                            AtLeast(Confidence(identities[cid], idOp.correlators),
                                    idOp.min_confidence)}
        IN /\ {ret[k].identity.correlation_id : k \in 1..Len(ret)} = expected
           /\ Len(ret) = Cardinality(expected)
           /\ \A k \in 1..Len(ret) :
                  /\ ret[k].identity = identities[ret[k].identity.correlation_id]
                  /\ ret[k].score = Confidence(ret[k].identity, idOp.correlators)
           /\ \A k \in 1..(Len(ret) - 1) : AtLeast(ret[k].score, ret[k + 1].score)

\* find_matches returned two identities, the one registered second first because its
\* confidence is strictly higher
C12_Witness ==
    /\ idOp.op = "find_matches"
    /\ Len(idOp.ret) = 2
    /\ idOp.ret[1].identity.correlation_id = id_order[2]
    /\ ~AtLeast(idOp.ret[2].score, idOp.ret[1].score)

\* C13: when the query supplies only a hashed-id correlator and min_confidence is in
\* (0, 1], every registered identity with the same hashed id is returned with
\* confidence exactly 1.0 and no identity with a different hashed id is returned.
C13_HashedIdOnly ==
    (/\ idOp.op = "find_matches"
     /\ Truthy(idOp.correlators.ssn_hash)
     /\ \A c \in CorrelatorNames \ {"ssn_hash"} : idOp.correlators[c] = None
     /\ idOp.min_confidence.num > 0
     /\ idOp.min_confidence.num <= idOp.min_confidence.den) =>
        LET ret == idOp.ret
        IN /\ \A cid \in DOMAIN identities :
                  identities[cid].ssn_hash = idOp.correlators.ssn_hash =>
                      \E k \in 1..Len(ret) :
                          /\ ret[k].identity = identities[cid]
                          /\ ret[k].score.num = ret[k].score.den
           /\ \A k \in 1..Len(ret) : ret[k].identity.ssn_hash = idOp.correlators.ssn_hash

\* a hashed-id-only query with min_confidence 1.0 on a registry that holds an identity
\* with that hashed id and one with another hashed id returned the first alone
C13_Witness ==
    /\ idOp.op = "find_matches"
    /\ idOp.correlators = [ssn_hash |-> "a1b2", dob |-> None, gender |-> None, name |-> None]
    /\ idOp.min_confidence = Quotient(10, 10)
    /\ \E cid \in DOMAIN identities : identities[cid].ssn_hash = "c3d4"
    /\ Len(idOp.ret) = 1
    /\ idOp.ret[1].identity.ssn_hash = "a1b2"

\* C14: the weights are strictly ordered hashed id > DOB > name > gender, and of two
\* candidates that hold all four correlators of the query, the one that agrees on the
\* hashed id alone has a strictly higher confidence than the one that agrees on DOB,
\* name and gender and disagrees on the hashed id.
C14_HashedIdDominates ==
    /\ SsnWeight > DobWeight /\ DobWeight > NameWeight /\ NameWeight > GenderWeight
    /\ idOp.op = "find_matches" =>
           \A k1 \in 1..Len(idOp.ret), k2 \in 1..Len(idOp.ret) :
               LET m1 == idOp.ret[k1]
                   m2 == idOp.ret[k2]
               IN (/\ PresentOnBoth(m1.identity, idOp.correlators) = CorrelatorNames
                   /\ PresentOnBoth(m2.identity, idOp.correlators) = CorrelatorNames
                   /\ Agreeing(m1.identity, idOp.correlators) = {"ssn_hash"}
                   /\ Agreeing(m2.identity, idOp.correlators) = {"dob", "gender", "name"}) =>
                      /\ ~AtLeast(m2.score, m1.score)
                      /\ k1 < k2

\* find_matches returned a candidate that agrees on the hashed id alone ahead of one
\* that agrees on DOB, name and gender alone
C14_Witness ==
    /\ idOp.op = "find_matches"
    /\ Len(idOp.ret) = 2
    /\ PresentOnBoth(idOp.ret[1].identity, idOp.correlators) = CorrelatorNames
    /\ PresentOnBoth(idOp.ret[2].identity, idOp.correlators) = CorrelatorNames
    /\ Agreeing(idOp.ret[1].identity, idOp.correlators) = {"ssn_hash"}
    /\ Agreeing(idOp.ret[2].identity, idOp.correlators) = {"dob", "gender", "name"}

(***************************************************************************)
(* Coordinator properties                                                  *)
(***************************************************************************)
\* C20: a constructed Coordinator has a spec registered for each of the three default
\* rules, and for each of them the delay window and the enabled flag are values of the
\* sync configuration: the claim window and the claim flag for encounter -> claim, the
\* fill window and the fill flag for prescription -> fill, the claim flag and one of the
\* configured windows for admission -> facility claim.
C20_DefaultRulesFromConfig ==
    syncs >= 1 =>
        /\ {"encounter_to_claim", "prescription_to_fill", "admission_to_facility_claim"}
               \subseteq DOMAIN specs
        /\ specs["encounter_to_claim"].delay_days = sync_config.claim_delay_days
        /\ specs["encounter_to_claim"].enabled = sync_config.auto_generate_claims
        /\ specs["prescription_to_fill"].delay_days = sync_config.fill_delay_days
        /\ specs["prescription_to_fill"].enabled = sync_config.auto_generate_fills
        /\ specs["admission_to_facility_claim"].delay_days
               \in {sync_config.claim_delay_days, sync_config.fill_delay_days}
        /\ specs["admission_to_facility_claim"].enabled = sync_config.auto_generate_claims

\* C17: create_linked_identity derives the per-product ids from the seed: any two
\* calls made with the same seed value and the same products, on the same or on
\* different Coordinators, return identical per-product ids.
C17_SameSeedSameIds ==
    \A c1 \in created, c2 \in created :
        (c1.seed # NoSeed /\ c1.seed = c2.seed /\ c1.products = c2.products) =>
            /\ c1.patient_id = c2.patient_id
            /\ c1.member_id = c2.member_id
            /\ c1.rx_member_id = c2.rx_member_id
            /\ c1.subject_id = c2.subject_id

\* C18: validation is advisory: validate returns passed = true with an empty error
\* list whatever it is handed; orphaned entities are reported as warnings only.
C18_ValidationIsAdvisory ==
    validated.op = "validate" =>
        /\ validated.ret.passed = TRUE
        /\ validated.ret.errors = <<>>

\* the positions (item, index) of the entities of a dict handed to validate
EntityPositions(entities) ==
    {pos \in (1..Len(entities)) \X (1..MaxEntities + 1) : pos[2] <= Len(entities[pos[1]][2])}

\* the entity at (item, index) has an id that an identity of the registry holds as its
\* key for the item's product
IsRegistered(entities, pos) ==
    LET product == entities[pos[1]][1]
        e == entities[pos[1]][2][pos[2]]
        field == IdFields(product)[1]
    IN \E cid \in DOMAIN identities :
           \E f \in {field, "id"} \cap DOMAIN e :
               e[f] # None /\ KeyOf(identities[cid], product) = e[f]

\* validate was handed an entity whose id the registry does not hold, next to one it
\* holds, and returned passed with one warning
C18_Witness ==
    /\ validated.op = "validate"
    /\ validated.ret.passed = TRUE
    /\ Len(validated.ret.warnings) = 1
    /\ Len(validated.entities) = 1
    /\ Len(validated.entities[1][2]) = 2
    /\ \E j \in 1..2 : IsRegistered(validated.entities, <<1, j>>)

\* C19: validate checks every supplied entity: it emits exactly one warning for each
\* entity whose id is not registered in the Identity Registry under the entity's
\* product, and none for an entity whose id is registered there.
C19_OneWarningPerOrphan ==
    [][validated' # validated =>
           Len(validated'.ret.warnings) =
               Cardinality({pos \in EntityPositions(validated'.entities) :
                               ~IsRegistered(validated'.entities, pos)})]_vars

(***************************************************************************)
(* Trigger Registry properties                                             *)
(***************************************************************************)
\* the three failure cases, by what the registry held when fire was called
NoSpecCase == ~fired.spec_registered
DisabledCase == fired.spec_registered /\ ~fired.spec_enabled
NoHandlerCase == fired.spec_registered /\ fired.spec_enabled /\ ~fired.handler_registered

\* "part in message"
HasPart(message, part) == \E i \in 1..Len(message) : message[i] = part

\* C3: fire on a trigger type with no spec, with a disabled spec, or with an enabled
\* spec and no handler does not raise; it returns success = false with a message that
\* names the case: "No spec", "disabled", "No handler", each present in its own case
\* and absent in the other two.
C3_FailureModesDistinct ==
    (fired.op = "fire" /\ (NoSpecCase \/ DisabledCase \/ NoHandlerCase)) =>
        /\ ~fired.raised
        /\ fired.result.success = FALSE
        /\ HasPart(fired.result.message, "No spec") <=> NoSpecCase
        /\ HasPart(fired.result.message, "disabled") <=> DisabledCase
        /\ HasPart(fired.result.message, "No handler") <=> NoHandlerCase

\* fire was called on a disabled spec whose handler is missing too, and answered
\* with the disabled message
C3_Witness ==
    /\ fired.op = "fire"
    /\ DisabledCase
    /\ ~fired.handler_registered
    /\ HasPart(fired.result.message, "disabled")

C5_DependencyOrdering ==
    \A k1 \in 1..Len(build.events), k2 \in 1..Len(build.events) :
        build.events[k1].depends_on = build.events[k2].event_id =>
            build.events[k1].scheduled_date >= build.events[k2].scheduled_date

\* a built Timeline holds an event dated strictly after the event it depends on, and
\* that one strictly after the start date
C5_Witness ==
    \E k1 \in 1..Len(build.events), k2 \in 1..Len(build.events) :
        /\ build.events[k1].depends_on = build.events[k2].event_id
        /\ build.events[k1].scheduled_date > build.events[k2].scheduled_date
        /\ build.events[k2].scheduled_date > start_date

\* the dependency graph of the journey contains a cycle: some non-empty set of
\* definitions in which every member depends on a member
Cyclic(j) ==
    \E S \in (SUBSET DefIndexes) \ {{}} :
        \A i \in S : \E k \in S : j[i].depends_on = DefIds[k]

\* C9: building a journey whose dependency graph contains a cycle fails with
\* CycleError and produces no Timeline.
C9_CycleRejected ==
    (builds >= 1 /\ Cyclic(journey)) =>
        (build.error = "CycleError" /\ build.events = <<>> /\ timeline = <<>>)

\* the journey A -> B, B -> A was built and refused
C9_Witness ==
    /\ builds >= 1
    /\ journey[1].depends_on = "B"
    /\ journey[2].depends_on = "A"
    /\ build.error = "CycleError"
    /\ build.cycle = {"A", "B"}

(***************************************************************************)
(* Timeline Executor properties                                            *)
(***************************************************************************)
\* C6: over the execute calls made on one Timeline with increasing horizons, the
\* handler of each event is called at most once.
C6_HandlerAtMostOnce ==
    \A k1 \in 1..Len(invoked), k2 \in 1..Len(invoked) :
        k1 # k2 => invoked[k1] # invoked[k2]

\* two executes with H1 < H2 were made; the first called a handler and the second
\* called another while an executed event was within its horizon
C6_Witness ==
    /\ Len(horizons) = 2
    /\ horizons[1] < horizons[2]
    /\ Len(invoked) >= 2
    /\ \E k \in 1..Len(before) : before[k].status = "executed"
    /\ \E k \in 1..Len(before) : before[k].status = "pending" /\ timeline[k].status = "executed"

\* C7: executing a freshly built Timeline to H1 and then to H2 > H1 leaves every event
\* with the status and result that one execute to H2 on an identical freshly built
\* Timeline gives it.
C7_ResumeEqualsDirect ==
    (Len(horizons) = 2 /\ horizons[1] < horizons[2]) =>
        timeline = ExecuteOn(build.events, entity, horizons[2]).events

\* the status the dependency named id had when the walk visited position pos: events
\* earlier in the walk had been visited already, later ones had not
StatusAtVisit(pos, id) ==
    IF \E k \in 1..Len(before) : before[k].event_id = id
    THEN LET k == CHOOSE q \in 1..Len(before) : before[q].event_id = id
         IN IF k < pos THEN timeline[k].status ELSE before[k].status
    ELSE "skipped"

DeferredAt(pos) ==
    /\ before[pos].status = "pending"
    /\ before[pos].scheduled_date <= horizons[Len(horizons)]
    /\ before[pos].depends_on # None
    /\ StatusAtVisit(pos, before[pos].depends_on) \notin {"executed", "skipped"}

ProcessableAt(pos) ==
    /\ before[pos].status = "pending"
    /\ before[pos].scheduled_date <= horizons[Len(horizons)]
    /\ (before[pos].depends_on = None
        \/ StatusAtVisit(pos, before[pos].depends_on) \in {"executed", "skipped"})

\* C8: in an execute, a pending event within the horizon whose dependencies are not
\* all executed-or-skipped stays pending and does not stop the walk: every other
\* pending event within the horizon whose dependencies are satisfied when the walk
\* reaches it is processed (executed or failed) in the same call.
C8_DeferralDoesNotBlock ==
    horizons # <<>> =>
        \A pos \in 1..Len(before) :
            /\ DeferredAt(pos) => timeline[pos].status = "pending"
            /\ ProcessableAt(pos) => timeline[pos].status \in {"executed", "failed"}

\* an execute deferred an event and processed an event later in the walk
C8_Witness ==
    /\ horizons # <<>>
    /\ \E p1 \in 1..Len(before), p2 \in 1..Len(before) :
        /\ p1 < p2
        /\ DeferredAt(p1)
        /\ ProcessableAt(p2)
        /\ timeline[p2].status = "executed"

\* the definitions that depend on a member of S, directly or through n further steps
RECURSIVE Dependents(_, _, _)
Dependents(j, S, n) ==
    LET direct == {i \in DefIndexes : \E e \in S : j[i].depends_on = DefIds[e]}
    IN IF n = 0 THEN direct ELSE direct \cup Dependents(j, S \cup direct, n - 1)

\* C10: if a definition E is skipped at build time, every definition that depends on E
\* directly or transitively is skipped too: it has no event in the Timeline, and the
\* Executor never calls a handler for it.
C10_SkipPropagates ==
    build.error = None =>
        \A e \in DefIndexes :
            (DefIds[e] \in build.skipped \/ ~journey[e].condition) =>
                \A i \in {e} \cup Dependents(journey, {e}, Len(DefIds)) :
                    /\ DefIds[i] \in build.skipped
                    /\ \A k \in 1..Len(timeline) : timeline[k].event_id # DefIds[i]
                    /\ \A k \in 1..Len(invoked) : invoked[k] # DefIds[i]

\* A is skipped by its own condition, B depends on A and C on B, and an execute to
\* the last horizon has run
C10_Witness ==
    /\ build.error = None
    /\ ~journey[1].condition
    /\ journey[2].depends_on = "A"
    /\ journey[3].depends_on = "B"
    /\ build.skipped = {"A", "B", "C"}
    /\ horizons # <<>>
    /\ horizons[Len(horizons)] = start_date + MaxHorizon

(***************************************************************************)
(* Handler claims                                                          *)
(***************************************************************************)
\* C21: no product handler mutates the TimelineEvent it is given: when a handler call
\* returns, the event object has the status, the result and every other field it was
\* passed with.
C21_HandlerLeavesEvent ==
    [][Len(h_calls') > Len(h_calls) => h_event' = h_calls'[Len(h_calls')].event]_vars

\* a handler that draws from its generator has returned from a call on an event that
\* carries parameters, and the event is as it was passed
C21_Witness ==
    /\ h_calls # <<>>
    /\ h_calls[Len(h_calls)].handler = "handle_claim_professional"
    /\ h_calls[Len(h_calls)].event.result # NoResult
    /\ h_rng["membersim"].pos > 0
    /\ h_event = h_calls[Len(h_calls)].event

\* C22: every handler is a pure function of (entity, event, context): two calls of the
\* same handler with equal arguments return equal dicts, whatever was called in between.
C22_HandlersArePure ==
    \A i, j \in DOMAIN h_calls :
        (/\ h_calls[i].handler = h_calls[j].handler
         /\ h_calls[i].entity = h_calls[j].entity
         /\ h_calls[i].event = h_calls[j].event
         /\ h_calls[i].context = h_calls[j].context)
        => h_calls[i].ret = h_calls[j].ret

(***************************************************************************)
(* Seed Hierarchy claims                                                   *)
(***************************************************************************)
\* the stream requests in the log
StreamRequests == {i \in DOMAIN stream_log : stream_log[i].op = "stream"}

\* two requests for the stream of one (entity index, purpose) pair under one root seed
SamePair(a, b) ==
    /\ seed_managers[stream_log[a].inst].root = seed_managers[stream_log[b].inst].root
    /\ stream_log[a].ent = stream_log[b].ent
    /\ stream_log[a].purpose = stream_log[b].purpose

LastCall == pm_log[Len(pm_log)]

\* C24: profile names are unique: save_profile with a name that is already stored
\* raises ValueError and stores nothing, and after any sequence of save_profile,
\* update_profile and delete_profile calls no two stored profiles share a name.
C24_NamesUnique ==
    /\ [](\A a, b \in DOMAIN profiles : profiles[a].name = profiles[b].name => a = b)
    /\ [][(/\ Len(pm_log') > Len(pm_log)
           /\ LastCall'.op = "save_profile"
           /\ RowsWithName(profiles, LastCall'.arg) # {})
          => (LastCall'.outcome = "ValueError" /\ profiles' = profiles)]_vars

\* a save under a stored name was refused, next to a second profile stored under
\* another name
C24_Witness ==
    /\ pm_log # <<>>
    /\ LastCall.op = "save_profile"
    /\ LastCall.outcome = "ValueError"
    /\ RowsWithName(profiles, LastCall.arg) # {}
    /\ Cardinality(DOMAIN profiles) = 2

\* the bumping updates applied to a profile so far
BumpsOf(id) ==
    Cardinality({i \in DOMAIN pm_log : /\ pm_log[i].op = "update_profile"
                                       /\ pm_log[i].target = id
                                       /\ pm_log[i].bump_version})

\* C25: a saved profile starts at version 1, an update_profile with bump_version=True
\* adds exactly 1 and one with bump_version=False adds nothing: the version of a stored
\* profile is 1 plus the number of bumping updates applied to it.
C25_VersionCountsBumps ==
    \A id \in DOMAIN profiles : profiles[id].version = 1 + BumpsOf(id)

\* a stored profile has had a bumping update and an update that does not bump
C25_Witness ==
    \E id \in DOMAIN profiles :
        /\ BumpsOf(id) = 1
        /\ \E i \in DOMAIN pm_log : /\ pm_log[i].op = "update_profile"
                                     /\ pm_log[i].target = id
                                     /\ ~pm_log[i].bump_version
        /\ profiles[id].version = 2

(***************************************************************************)
(* Executor completeness                                                   *)
(***************************************************************************)
\* C26: when execute(timeline, entity, up_to_date) returns, no event is left pending
\* whose date is <= up_to_date and whose dependencies are all executed or skipped.
C26_NothingProcessableLeftPending ==
    horizons # <<>> =>
        \A k \in 1..Len(timeline) :
            ~(/\ timeline[k].status = "pending"
              /\ timeline[k].scheduled_date <= horizons[Len(horizons)]
              /\ DepsSatisfied(timeline, timeline[k]))

(***************************************************************************)
(* Linked identities                                                       *)
(***************************************************************************)
\* C27: after any sequence of create_linked_identity calls on one Coordinator, every
\* identity created so far is returned by get_by_product_id for each of its
\* per-product ids: the per-product ids of distinct created identities never collide.
C27_CreatedStayReachable ==
    \A cid \in DOMAIN identities, product \in KeyProducts :
        KeyOf(identities[cid], product) # None =>
            get_by_product_id(product, KeyOf(identities[cid], product)) = identities[cid]

\* C28: the hashed national id that create_linked_identity stores for an SSN equals
\* hash_ssn of that SSN in every formatting of the same digits, so that a find_matches
\* query whose hashed-id correlator comes from hash_ssn returns the created identity.
C28_StoredHashIsHashSsn ==
    \A c \in created, ssn \in Ssns :
        (c.correlation_id \in DOMAIN identities
         /\ JoinDigits(Chars(ssn)) = JoinDigits(Chars(c.ssn))) =>
            /\ identities[c.correlation_id].ssn_hash = hash_ssn(ssn)
            /\ (idOp.op = "find_matches" /\ idOp.correlators.ssn_hash = hash_ssn(ssn)) =>
                   \E k \in 1..Len(idOp.ret) :
                       idOp.ret[k].identity = identities[c.correlation_id]

\* C29: after generate(profile, count, seed, overrides) returns, the specification object
\* the caller supplied has every field (generation.count and generation.seed included) at
\* the value it had before the call, in membersim, rxmembersim and trialsim alike
C29_CallerSpecUnchanged ==
    gen_log # <<>> =>
        caller_spec[gen_log[Len(gen_log)].product] = gen_log[Len(gen_log)].before

\* C30: in every built-in trial journey template each depends_on id names an event
\* defined in the same template, and following depends_on from any event never comes
\* back to an event already passed (the dependency graph is acyclic)
C30_TemplatesKeepInvariant ==
    /\ tj_template # None =>
           \A i \in DOMAIN TRIAL_JOURNEY_TEMPLATES[tj_template] :
               LET dep == TRIAL_JOURNEY_TEMPLATES[tj_template][i].depends_on
               IN  dep = None \/ dep \in EventIdsOf(tj_template)
    /\ tj_verdict \notin {"dangling", "cycle"}

\* the longest chain of the templates followed to its root: followup back to screening
\* in phase1-healthy-volunteer
C30_Witness ==
    /\ tj_template = "phase1-healthy-volunteer"
    /\ tj_verdict = "resolved"
    /\ tj_chain[1] = "followup"
    /\ tj_chain[Len(tj_chain)] = "screening"
    /\ Len(tj_chain) = Len(phase1_healthy_volunteer)

====
